---- MODULE Spec2Model ----
(***************************************************************************)
(* The streaming Turkish-morphology page (src/unnamed/part_002): runStream *)
(* reads a server-sent-event response, splits it into frames, dispatches   *)
(* each frame, accumulates the text deltas and extracts the JSON objects   *)
(* the model wrote, one per line.                                          *)
(*                                                                         *)
(* Text is a sequence of characters; a character is a one-character string *)
(* (the two bytes of a two-byte UTF-8 character and the character they     *)
(* decode to are named atoms).  A JSON value is a record                   *)
(*   [t |-> "str" | "obj" | "arr" | "true" | "false" | "null",             *)
(*    s |-> the characters of a string,                                    *)
(*    m |-> the members <<key, value>> of an object, in insertion order,   *)
(*          or the elements of an array].                                  *)
(* Numbers and \u escapes are not part of the input alphabet.              *)
(***************************************************************************)
EXTENDS Integers, Sequences, FiniteSets, TLC

\* ------------------------------------------------------------ characters

QUOTE == "\""
BSLASH == "\\"
LF == "\n"
CR == "\r"
TAB == "\t"
SPACE == " "

\* String.prototype.trim removes white space and line terminators at both ends.
IsTrimSpace(c) == c \in {SPACE, TAB, LF, CR}

\* s.slice(a) with a 0-based: the characters from index a on.
SliceFrom(s, a) == IF a >= Len(s) THEN <<>> ELSE SubSeq(s, a + 1, Len(s))

\* s.slice(a, b) with 0-based a and exclusive b.
Slice(s, a, b) == IF b <= a THEN <<>> ELSE SubSeq(s, a + 1, b)

\* s.slice(-n): the last n characters (all of s when it is shorter).
SliceLast(s, n) == IF Len(s) <= n THEN s ELSE SubSeq(s, Len(s) - n + 1, Len(s))

StartsWith(s, p) == Len(s) >= Len(p) /\ SubSeq(s, 1, Len(p)) = p

\* s.trim(): s from its first to its last character that is no white space.
Trim(s) ==
  LET keep == {i \in 1..Len(s) : ~IsTrimSpace(s[i])} IN
  IF keep = {} THEN <<>>
  ELSE SubSeq(s, CHOOSE i \in keep : \A j \in keep : i <= j,
                 CHOOSE i \in keep : \A j \in keep : i >= j)

\* LET v == x IN Body(v), with x evaluated once, before Body.
Let(x, Body(_)) == CHOOSE r \in {Body(v) : v \in {x}} : TRUE

\* A loop: the body F applied while More holds, at most k times (k is a bound
\* on the iterations the loop can make).  The halves are run one after the
\* other, so the evaluation nests only logarithmically in k.
RECURSIVE Iterate(_, _, _, _)
Iterate(F(_), More(_), st, k) ==
  Let(<<st, k>>, LAMBDA a :
    IF a[2] <= 0 \/ ~More(a[1]) THEN a[1]
    ELSE IF a[2] = 1 THEN F(a[1])
    ELSE Iterate(F, More, Iterate(F, More, a[1], a[2] \div 2),
                 a[2] - (a[2] \div 2)))

\* ------------------------------------------------------------ JSON.parse

JStr(s) == [t |-> "str", s |-> s, m |-> <<>>]
JObj(m) == [t |-> "obj", s |-> <<>>, m |-> m]
JArr(m) == [t |-> "arr", s |-> <<>>, m |-> m]
JLit(k) == [t |-> k, s |-> <<>>, m |-> <<>>]
\* JavaScript's undefined (an absent property); never the result of a parse.
JUndef == [t |-> "undefined", s |-> <<>>, m |-> <<>>]

PFail == [ok |-> FALSE, v |-> JUndef, p |-> 0]
POk(v, p) == [ok |-> TRUE, v |-> v, p |-> p]

IsJsonSpace(c) == c \in {SPACE, TAB, LF, CR}

\* The first index from i on that holds no white space (Len(s) + 1 when none).
SkipWs(s, i) ==
  LET rest == {j \in i..Len(s) : ~IsJsonSpace(s[j])} IN
  IF i > Len(s) THEN i
  ELSE IF rest = {} THEN Len(s) + 1
  ELSE CHOOSE j \in rest : \A k \in rest : j <= k

\* The character an escape \e stands for; "" when \e is no escape of the alphabet.
Unescape(e) ==
  CASE e = QUOTE -> QUOTE
    [] e = BSLASH -> BSLASH
    [] e = "/" -> "/"
    [] e = "n" -> LF
    [] e = "r" -> CR
    [] e = "t" -> TAB
    [] OTHER -> ""

\* One character (or escape) of a string literal: q.i is the index read,
\* q.acc the characters read so far, q.res "more", "ok" or "fail".
StrStep(q) ==
  LET s == q.s
      i == q.i
  IN
  IF s[i] = QUOTE THEN [q EXCEPT !.res = "ok", !.i = i + 1]
  ELSE IF s[i] = BSLASH THEN
    IF i + 1 > Len(s) \/ Unescape(s[i + 1]) = "" THEN [q EXCEPT !.res = "fail"]
    ELSE [q EXCEPT !.acc = Append(@, Unescape(s[i + 1])), !.i = i + 2]
  ELSE IF s[i] \in {LF, CR, TAB} THEN [q EXCEPT !.res = "fail"]
  ELSE [q EXCEPT !.acc = Append(@, s[i]), !.i = i + 1]

StrMore(q) == q.res = "more" /\ q.i <= Len(q.s)

\* The body of a string literal from index i (after the opening quote).
ParseStrBody(s, i, acc) ==
  Let(Iterate(StrStep, StrMore,
              [s |-> s, i |-> i, acc |-> acc, res |-> "more"], Len(s)),
      LAMBDA q : IF q.res = "ok" THEN POk(JStr(q.acc), q.i) ELSE PFail)

\* obj[key] = v: a repeated key keeps its place and takes the later value.
RECURSIVE PutMember(_, _, _)
PutMember(m, key, v) ==
  IF m = <<>> THEN << <<key, v>> >>
  ELSE IF Head(m)[1] = key THEN << <<key, v>> >> \o Tail(m)
  ELSE <<Head(m)>> \o PutMember(Tail(m), key, v)

LitTrue == <<"t", "r", "u", "e">>
LitFalse == <<"f", "a", "l", "s", "e">>
LitNull == <<"n", "u", "l", "l">>

RECURSIVE ParseValue(_, _)
RECURSIVE ParseMembers(_, _, _)
RECURSIVE ParseElements(_, _, _)

ParseValue(s, i0) ==
  Let(SkipWs(s, i0), LAMBDA i :
    IF i > Len(s) THEN PFail
    ELSE IF s[i] = QUOTE THEN ParseStrBody(s, i + 1, <<>>)
    ELSE IF s[i] = "{" THEN
      Let(SkipWs(s, i + 1), LAMBDA j :
        IF j <= Len(s) /\ s[j] = "}" THEN POk(JObj(<<>>), j + 1)
        ELSE ParseMembers(s, j, <<>>))
    ELSE IF s[i] = "[" THEN
      Let(SkipWs(s, i + 1), LAMBDA j :
        IF j <= Len(s) /\ s[j] = "]" THEN POk(JArr(<<>>), j + 1)
        ELSE ParseElements(s, j, <<>>))
    ELSE IF StartsWith(SliceFrom(s, i - 1), LitTrue) THEN POk(JLit("true"), i + 4)
    ELSE IF StartsWith(SliceFrom(s, i - 1), LitFalse) THEN POk(JLit("false"), i + 5)
    ELSE IF StartsWith(SliceFrom(s, i - 1), LitNull) THEN POk(JLit("null"), i + 4)
    ELSE PFail)

\* Members from index i (a key is expected), m the members parsed so far.
ParseMembers(s, i0, m0) ==
  Let(<<i0, m0>>, LAMBDA a :
    LET i == a[1]
        m == a[2]
    IN
    IF i > Len(s) \/ s[i] # QUOTE THEN PFail
    ELSE
      Let(ParseStrBody(s, i + 1, <<>>), LAMBDA k :
        IF ~k.ok THEN PFail
        ELSE
          Let(SkipWs(s, k.p), LAMBDA c :
            IF c > Len(s) \/ s[c] # ":" THEN PFail
            ELSE
              Let(ParseValue(s, c + 1), LAMBDA v :
                IF ~v.ok THEN PFail
                ELSE
                  Let(SkipWs(s, v.p), LAMBDA e :
                    IF e > Len(s) THEN PFail
                    ELSE IF s[e] = "}"
                    THEN POk(JObj(PutMember(m, k.v.s, v.v)), e + 1)
                    ELSE IF s[e] = ","
                    THEN ParseMembers(s, SkipWs(s, e + 1), PutMember(m, k.v.s, v.v))
                    ELSE PFail)))))

\* Elements from index i (a value is expected), m the elements parsed so far.
ParseElements(s, i, m0) ==
  Let(<<ParseValue(s, i), m0>>, LAMBDA a :
    LET v == a[1]
        m == a[2]
    IN
    IF ~v.ok THEN PFail
    ELSE
      Let(SkipWs(s, v.p), LAMBDA e :
        IF e > Len(s) THEN PFail
        ELSE IF s[e] = "]" THEN POk(JArr(Append(m, v.v)), e + 1)
        ELSE IF s[e] = "," THEN ParseElements(s, e + 1, Append(m, v.v))
        ELSE PFail))

\* JSON.parse(s): ok is FALSE where JSON.parse throws.
JSONParse(s0) ==
  Let(s0, LAMBDA s :
    Let(ParseValue(s, 1), LAMBDA r :
      IF r.ok /\ SkipWs(s, r.p) = Len(s) + 1 THEN r ELSE PFail))

\* typeof v === "object" && v !== null
IsNonNullObject(v) == v.t \in {"obj", "arr"}

\* key in v, for an object v that JSON.parse built.
HasKey(v, key) == v.t = "obj" /\ \E k \in 1..Len(v.m) : v.m[k][1] = key

\* v[key]: undefined when v has no such property.
GetKey(v, key) ==
  IF HasKey(v, key)
  THEN v.m[CHOOSE k \in 1..Len(v.m) : v.m[k][1] = key][2]
  ELSE JUndef

\* Boolean(v)
Truthy(v) ==
  CASE v.t = "str" -> v.s # <<>>
    [] v.t \in {"obj", "arr", "true"} -> TRUE
    [] OTHER -> FALSE

\* ------------------------------------------------- the JSON object extractor

\* The cap of textBuf in characters.  The source sets 512 * 1024; the model
\* scales it to MaxBufScaled so that texts of tens of characters reach it.
MaxBufScaled == 24
MAX_BUF == MaxBufScaled

\* The scanner of extractJsonObjects before its loop: textBuf = buf and the
\* locals i, start, depth, inStr, esc, toEmit as declared.
ScanInit(buf) ==
  [buf |-> buf, i |-> 0, start |-> -1, depth |-> 0, inStr |-> FALSE,
   esc |-> FALSE, toEmit |-> <<>>]

\* while (i < textBuf.length)
ScanMore(st) == st.i < Len(st.buf)

\* ScanStep without string mode: a quote is an ordinary character and every
\* brace counts.
ScanStepNoStr(st) ==
  LET ch == st.buf[st.i + 1] IN
  IF ch = "{" THEN
    [st EXCEPT !.start = IF st.depth = 0 THEN st.i ELSE @,
               !.depth = @ + 1, !.i = @ + 1]
  ELSE IF ch = "}" THEN
    LET d == IF st.depth > 0 THEN st.depth - 1 ELSE st.depth IN
    IF d = 0 /\ st.start # -1
    THEN [st EXCEPT !.depth = d,
                    !.toEmit = Append(@, Slice(st.buf, st.start, st.i + 1)),
                    !.buf = SliceFrom(st.buf, st.i + 1),
                    !.i = 0, !.start = -1]
    ELSE [st EXCEPT !.depth = d, !.i = @ + 1]
  ELSE [st EXCEPT !.i = @ + 1]

\* ScanStep without the esc flag: inside a string every quote closes it.
ScanStepNoEsc(st) ==
  LET ch == st.buf[st.i + 1] IN
  IF st.inStr THEN
    IF ch = QUOTE THEN [st EXCEPT !.inStr = FALSE, !.i = @ + 1]
    ELSE [st EXCEPT !.i = @ + 1]
  ELSE IF ch = QUOTE THEN [st EXCEPT !.inStr = TRUE, !.i = @ + 1]
  ELSE IF ch = "{" THEN
    [st EXCEPT !.start = IF st.depth = 0 THEN st.i ELSE @,
               !.depth = @ + 1, !.i = @ + 1]
  ELSE IF ch = "}" THEN
    LET d == IF st.depth > 0 THEN st.depth - 1 ELSE st.depth IN
    IF d = 0 /\ st.start # -1
    THEN [st EXCEPT !.depth = d,
                    !.toEmit = Append(@, Slice(st.buf, st.start, st.i + 1)),
                    !.buf = SliceFrom(st.buf, st.i + 1),
                    !.i = 0, !.start = -1]
    ELSE [st EXCEPT !.depth = d, !.i = @ + 1]
  ELSE [st EXCEPT !.i = @ + 1]

\* ScanStep without the guard of the decrement: every closing brace outside
\* a string lowers depth.
ScanStepNoGuard(st) ==
  LET ch == st.buf[st.i + 1] IN
  IF st.inStr THEN
    IF st.esc THEN [st EXCEPT !.esc = FALSE, !.i = @ + 1]
    ELSE IF ch = BSLASH THEN [st EXCEPT !.esc = TRUE, !.i = @ + 1]
    ELSE IF ch = QUOTE THEN [st EXCEPT !.inStr = FALSE, !.i = @ + 1]
    ELSE [st EXCEPT !.i = @ + 1]
  ELSE IF ch = QUOTE THEN [st EXCEPT !.inStr = TRUE, !.i = @ + 1]
  ELSE IF ch = "{" THEN
    [st EXCEPT !.start = IF st.depth = 0 THEN st.i ELSE @,
               !.depth = @ + 1, !.i = @ + 1]
  ELSE IF ch = "}" THEN
    LET d == st.depth - 1 IN
    IF d = 0 /\ st.start # -1
    THEN [st EXCEPT !.depth = d,
                    !.toEmit = Append(@, Slice(st.buf, st.start, st.i + 1)),
                    !.buf = SliceFrom(st.buf, st.i + 1),
                    !.i = 0, !.start = -1]
    ELSE [st EXCEPT !.depth = d, !.i = @ + 1]
  ELSE [st EXCEPT !.i = @ + 1]

\* ScanStep that leaves a candidate in textBuf: the scan goes on after it.
ScanStepKeep(st) ==
  LET ch == st.buf[st.i + 1] IN
  IF st.inStr THEN
    IF st.esc THEN [st EXCEPT !.esc = FALSE, !.i = @ + 1]
    ELSE IF ch = BSLASH THEN [st EXCEPT !.esc = TRUE, !.i = @ + 1]
    ELSE IF ch = QUOTE THEN [st EXCEPT !.inStr = FALSE, !.i = @ + 1]
    ELSE [st EXCEPT !.i = @ + 1]
  ELSE IF ch = QUOTE THEN [st EXCEPT !.inStr = TRUE, !.i = @ + 1]
  ELSE IF ch = "{" THEN
    [st EXCEPT !.start = IF st.depth = 0 THEN st.i ELSE @,
               !.depth = @ + 1, !.i = @ + 1]
  ELSE IF ch = "}" THEN
    LET d == IF st.depth > 0 THEN st.depth - 1 ELSE st.depth IN
    IF d = 0 /\ st.start # -1
    THEN [st EXCEPT !.depth = d,
                    !.toEmit = Append(@, Slice(st.buf, st.start, st.i + 1)),
                    !.i = @ + 1, !.start = -1]
    ELSE [st EXCEPT !.depth = d, !.i = @ + 1]
  ELSE [st EXCEPT !.i = @ + 1]

\* One iteration of the scanner loop on the character at st.i.
ScanStep(st) ==
  LET ch == st.buf[st.i + 1] IN
  IF st.inStr THEN
    IF st.esc THEN [st EXCEPT !.esc = FALSE, !.i = @ + 1]
    ELSE IF ch = BSLASH THEN [st EXCEPT !.esc = TRUE, !.i = @ + 1]
    ELSE IF ch = QUOTE THEN [st EXCEPT !.inStr = FALSE, !.i = @ + 1]
    ELSE [st EXCEPT !.i = @ + 1]
  ELSE IF ch = QUOTE THEN [st EXCEPT !.inStr = TRUE, !.i = @ + 1]
  ELSE IF ch = "{" THEN
    [st EXCEPT !.start = IF st.depth = 0 THEN st.i ELSE @,
               !.depth = @ + 1, !.i = @ + 1]
  ELSE IF ch = "}" THEN
    LET d == IF st.depth > 0 THEN st.depth - 1 ELSE st.depth IN
    IF d = 0 /\ st.start # -1
    THEN [st EXCEPT !.depth = d,
                    !.toEmit = Append(@, Slice(st.buf, st.start, st.i + 1)),
                    !.buf = SliceFrom(st.buf, st.i + 1),
                    !.i = 0, !.start = -1]
    ELSE [st EXCEPT !.depth = d, !.i = @ + 1]
  ELSE [st EXCEPT !.i = @ + 1]

\* The scanner loop run to its end: every iteration moves past one character
\* of the buffer it started with, so it makes at most Len(st.buf) iterations.
ScanLoop(st0) == Let(st0, LAMBDA st : Iterate(ScanStep, ScanMore, st, Len(st.buf)))

\* CapBuf without the cap.
CapBufNone(buf) == buf

\* if (textBuf.length > MAX_BUF) textBuf = textBuf.slice(-MAX_BUF)
CapBuf(buf) == IF Len(buf) > MAX_BUF THEN SliceLast(buf, MAX_BUF) ELSE buf

K_type == <<"t", "y", "p", "e">>
V_entry == JStr(<<"e", "n", "t", "r", "y">>)
V_done == JStr(<<"d", "o", "n", "e">>)

\* What emitObject does with a parsed value: "entry" (appended to entries),
\* "done" (loading cleared) or "none".
EmitKind(obj) ==
  IF ~Truthy(obj) \/ ~IsNonNullObject(obj) THEN "none"
  ELSE IF GetKey(obj, K_type) = V_entry THEN "entry"
  ELSE IF GetKey(obj, K_type) = V_done THEN "done"
  ELSE "none"

\* The values the for loop of extractJsonObjects hands to emitObject: the
\* candidates JSON.parse accepts, parsed, in order.
RECURSIVE ParsedOf(_)
ParsedOf(cands) ==
  IF cands = <<>> THEN <<>>
  ELSE Let(JSONParse(Head(cands)), LAMBDA r : IF r.ok THEN <<r.v>> ELSE <<>>)
       \o ParsedOf(Tail(cands))

\* One call of extractJsonObjects on textBuf = buf: the textBuf it leaves, the
\* candidates it collected and the values it handed to emitObject.
ExtractJsonObjects(buf) ==
  Let(ScanLoop(ScanInit(buf)), LAMBDA r :
    [buf |-> CapBuf(r.buf), toEmit |-> r.toEmit, objs |-> ParsedOf(r.toEmit),
     cut |-> Len(r.buf) > MAX_BUF])

\* handleTextChunk with textBuf = chunk in place of textBuf += chunk.
HandleTextChunkReplace(buf, chunk) ==
  IF chunk = <<>> THEN [buf |-> buf, toEmit |-> <<>>, objs |-> <<>>, cut |-> FALSE]
  ELSE ExtractJsonObjects(chunk)

\* handleTextChunk(chunk) on textBuf = buf: nothing when chunk is empty.
HandleTextChunk(buf, chunk) ==
  IF chunk = <<>> THEN [buf |-> buf, toEmit |-> <<>>, objs |-> <<>>, cut |-> FALSE]
  ELSE ExtractJsonObjects(buf \o chunk)

\* ------------------------------------------------- the event stream

\* event:   (line.startsWith("event:"))
P_event ==
  <<"e", "v", "e", "n", "t", ":">>
\* data:   (line.startsWith("data:"))
P_data ==
  <<"d", "a", "t", "a", ":">>
\* [DONE]   (the [DONE] sentinel)
S_DONE ==
  <<"[", "D", "O", "N", "E", "]">>
\* response.output_text.delta
N_output_text_delta ==
  <<"r", "e", "s", "p", "o", "n", "s", "e", ".", "o", "u", "t", "p", "u", "t",
  "_", "t", "e", "x", "t", ".", "d", "e", "l", "t", "a">>
\* response.content_part.delta
N_content_part_delta ==
  <<"r", "e", "s", "p", "o", "n", "s", "e", ".", "c", "o", "n", "t", "e", "n",
  "t", "_", "p", "a", "r", "t", ".", "d", "e", "l", "t", "a">>
\* response.output_text.done
N_output_text_done ==
  <<"r", "e", "s", "p", "o", "n", "s", "e", ".", "o", "u", "t", "p", "u", "t",
  "_", "t", "e", "x", "t", ".", "d", "o", "n", "e">>
\* response.completed
N_completed ==
  <<"r", "e", "s", "p", "o", "n", "s", "e", ".", "c", "o", "m", "p", "l", "e",
  "t", "e", "d">>
\* response.error
N_error ==
  <<"r", "e", "s", "p", "o", "n", "s", "e", ".", "e", "r", "r", "o", "r">>
\* response.created   (an event name the switch does not list)
N_created ==
  <<"r", "e", "s", "p", "o", "n", "s", "e", ".", "c", "r", "e", "a", "t", "e",
  "d">>
\* delta
S_delta ==
  <<"d", "e", "l", "t", "a">>
\* text
S_text ==
  <<"t", "e", "x", "t">>
\* error
S_error ==
  <<"e", "r", "r", "o", "r">>
\* message
S_message ==
  <<"m", "e", "s", "s", "a", "g", "e">>
\* output_text.delta
S_output_text_delta ==
  <<"o", "u", "t", "p", "u", "t", "_", "t", "e", "x", "t", ".", "d", "e", "l",
  "t", "a">>
\* Stream error
S_StreamError ==
  <<"S", "t", "r", "e", "a", "m", " ", "e", "r", "r", "o", "r">>
\* Failed to fetch   (the message of the TypeError a failed fetch or read rejects with)
S_FailedToFetch ==
  <<"F", "a", "i", "l", "e", "d", " ", "t", "o", " ", "f", "e", "t", "c",
  "h">>
\* [object Object]   (String(v) of an object)
S_object ==
  <<"[", "o", "b", "j", "e", "c", "t", " ", "O", "b", "j", "e", "c", "t",
  "]">>

\* The bytes of a two-byte UTF-8 character and the character itself; U+FFFD is
\* what the decoder substitutes for a malformed sequence.
B_lead == "C3"
B_cont == "B6"
C_o_umlaut == "U+00F6"
C_replacement == "U+FFFD"

\* decoder.decode(value, {stream: true}): the decoder holds back the lead byte
\* of a character whose second byte has not arrived.  d.pending is the held
\* bytes, d.i the index of the byte read, d.text the text decoded so far.
DecodeStep(d) ==
  LET b == d.bytes[d.i] IN
  IF d.pending # <<>> THEN
    IF b = B_cont
    THEN [d EXCEPT !.pending = <<>>, !.i = @ + 1, !.text = Append(@, C_o_umlaut)]
    ELSE [d EXCEPT !.pending = <<>>, !.text = Append(@, C_replacement)]
  ELSE IF b = B_lead THEN [d EXCEPT !.pending = <<b>>, !.i = @ + 1]
  ELSE IF b = B_cont THEN [d EXCEPT !.i = @ + 1, !.text = Append(@, C_replacement)]
  ELSE [d EXCEPT !.i = @ + 1, !.text = Append(@, b)]

DecodeMore(d) == d.i <= Len(d.bytes)

Decode(pending, bytes) ==
  Iterate(DecodeStep, DecodeMore,
          [bytes |-> bytes, i |-> 1, pending |-> pending, text |-> <<>>],
          2 * Len(bytes))

\* The length of the match of /\r?\n/ at index i (1-based) of s; 0 when none.
LineEndAt(s, i) ==
  IF i <= Len(s) /\ s[i] = LF THEN 1
  ELSE IF i + 1 <= Len(s) /\ s[i] = CR /\ s[i + 1] = LF THEN 2
  ELSE 0

\* The length of the match of /\r?\n\r?\n/ at index i of s; 0 when none.
BlankLineAt(s, i) ==
  LET a == LineEndAt(s, i) IN
  IF a = 0 THEN 0
  ELSE LET b == LineEndAt(s, i + a) IN IF b = 0 THEN 0 ELSE a + b

\* String.prototype.split with a regular expression: p.i is the index where a
\* match is tried, p.from the start of the piece being read, p.acc the pieces
\* cut so far.
SplitMore(p) == p.i <= Len(p.s)

SplitDone(p) == Append(p.acc, SubSeq(p.s, p.from, Len(p.s)))

SplitStart(s) == [s |-> s, i |-> 1, from |-> 1, acc |-> <<>>]

SplitFramesStep(p) ==
  LET n == BlankLineAt(p.s, p.i) IN
  IF n > 0
  THEN [p EXCEPT !.acc = Append(@, SubSeq(p.s, p.from, p.i - 1)),
                 !.i = p.i + n, !.from = p.i + n]
  ELSE [p EXCEPT !.i = @ + 1]

\* s.split(/\r?\n\r?\n/): the pieces between the matches, the last one included.
SplitFrames(s) ==
  Let(Iterate(SplitFramesStep, SplitMore, SplitStart(s), Len(s)),
      LAMBDA p : SplitDone(p))

SplitLinesStep(p) ==
  LET n == LineEndAt(p.s, p.i) IN
  IF n > 0
  THEN [p EXCEPT !.acc = Append(@, SubSeq(p.s, p.from, p.i - 1)),
                 !.i = p.i + n, !.from = p.i + n]
  ELSE [p EXCEPT !.i = @ + 1]

\* frame.split(/\r?\n/)
SplitLines(s) ==
  Let(Iterate(SplitLinesStep, SplitMore, SplitStart(s), Len(s)),
      LAMBDA p : SplitDone(p))

\* The for loop over the lines of a frame: eventType is <<>> for null and
\* <<name>> for a string, dataStr the concatenated data payloads.
RECURSIVE FieldsFrom(_, _)
FieldsFrom(lines0, f0) ==
  Let(<<lines0, f0>>, LAMBDA a :
    LET lines == a[1]
        f == a[2]
        line == Head(lines)
    IN
    IF lines = <<>> THEN f
    ELSE
      FieldsFrom(Tail(lines),
        IF StartsWith(line, P_event)
        THEN [f EXCEPT !.eventType = <<Trim(SliceFrom(line, 6))>>]
        ELSE IF StartsWith(line, P_data)
        THEN [f EXCEPT !.dataStr = @ \o Trim(SliceFrom(line, 5))]
        ELSE f))

ParseFields(frame) ==
  FieldsFrom(SplitLines(frame), [eventType |-> <<>>, dataStr |-> <<>>])

\* String(v), as textBuf += v computes it for a value that is no string.
RECURSIVE JsToString(_)
RECURSIVE JoinStrings(_)
JsToString(v) ==
  CASE v.t = "str" -> v.s
    [] v.t = "obj" -> S_object
    [] v.t = "arr" -> JoinStrings(v.m)
    [] v.t = "true" -> LitTrue
    [] v.t = "false" -> LitFalse
    [] v.t = "null" -> LitNull
    [] OTHER -> <<"u", "n", "d", "e", "f", "i", "n", "e", "d">>

\* Array.prototype.join: null elements give the empty string.
JoinStrings(m) ==
  IF m = <<>> THEN <<>>
  ELSE (IF Head(m).t = "null" THEN <<>> ELSE JsToString(Head(m)))
       \o (IF Len(m) > 1 THEN <<",">> ELSE <<>>) \o JoinStrings(Tail(m))

\* What the read loop acts on is a record w: the session's decPending, sseBuf
\* and textBuf and the component's entries, error and loading.  error is <<>>
\* for null and <<message>> for a message.  w.doneSeen records (for the claims
\* only) that emitObject met a done object, w.log the fields of the frames the
\* for loop went through, w.objs the values handed to emitObject and w.errSets
\* the setError calls made.

\* emitObject(obj)
EmitObject(w, obj) ==
  CASE EmitKind(obj) = "entry" ->
         [w EXCEPT !.entries = Append(@, obj), !.objs = Append(@, obj)]
    [] EmitKind(obj) = "done" ->
         [w EXCEPT !.loading = FALSE, !.doneSeen = TRUE, !.objs = Append(@, obj)]
    [] OTHER -> [w EXCEPT !.objs = Append(@, obj)]

RECURSIVE EmitAll(_, _)
RECURSIVE EmitAllLastFirst(_, _)
EmitAllLastFirst(w0, objs0) ==
  Let(<<w0, objs0>>, LAMBDA a :
    IF a[2] = <<>> THEN a[1]
    ELSE EmitObject(EmitAllLastFirst(a[1], Tail(a[2])), Head(a[2])))

EmitAll(w0, objs0) ==
  Let(<<w0, objs0>>, LAMBDA a :
    IF a[2] = <<>> THEN a[1]
    ELSE EmitAll(EmitObject(a[1], Head(a[2])), Tail(a[2])))

\* The effects of one extractJsonObjects call r.
ApplyExtract(w, r0) ==
  Let(r0, LAMBDA r : EmitAll([w EXCEPT !.textBuf = r.buf], r.objs))

\* case "response.output_text.delta"
OnOutputTextDeltaSkip(w, evt) == w

OnOutputTextDelta(w, evt) ==
  LET hasDelta == IsNonNullObject(evt) /\ HasKey(evt, S_delta)
      chunk == IF hasDelta /\ Truthy(GetKey(evt, S_delta))
               THEN GetKey(evt, S_delta) ELSE JStr(<<>>)
  IN
  IF ~Truthy(chunk) THEN w
  ELSE IF chunk.t = "str" THEN ApplyExtract(w, HandleTextChunk(w.textBuf, chunk.s))
  ELSE ApplyExtract(w, ExtractJsonObjects(w.textBuf \o JsToString(chunk)))

\* case "response.content_part.delta"
OnContentPartDelta(w, evt) ==
  LET d == IF IsNonNullObject(evt) /\ HasKey(evt, S_delta)
           THEN GetKey(evt, S_delta) ELSE JUndef
  IN
  IF /\ Truthy(d)
     /\ GetKey(d, K_type) = JStr(S_output_text_delta)
     /\ GetKey(d, S_text).t = "str"
  THEN ApplyExtract(w, HandleTextChunk(w.textBuf, GetKey(d, S_text).s))
  ELSE w

\* case "response.output_text.done"
OnOutputTextDone(w, evt) == ApplyExtract(w, ExtractJsonObjects(w.textBuf))

\* case "response.completed"
OnCompletedFlushOnly(w, evt) == ApplyExtract(w, ExtractJsonObjects(w.textBuf))

OnCompleted(w, evt) ==
  [ApplyExtract(w, ExtractJsonObjects(w.textBuf)) EXCEPT !.loading = FALSE]

\* case "response.error"
OnError(w, evt) ==
  LET e == IF IsNonNullObject(evt) /\ HasKey(evt, S_error)
           THEN GetKey(evt, S_error) ELSE JUndef
      m == IF e.t \in {"null", "undefined"} THEN JUndef ELSE GetKey(e, S_message)
      msg == IF Truthy(m) THEN JsToString(m) ELSE S_StreamError
  IN [w EXCEPT !.error = <<msg>>, !.loading = FALSE, !.errSets = @ + 1]

\* Dispatch whose default case takes the payload for a text delta.
DispatchDefaultDelta(w, eventType, evt) ==
  CASE eventType = <<N_output_text_delta>> -> OnOutputTextDelta(w, evt)
    [] eventType = <<N_content_part_delta>> -> OnContentPartDelta(w, evt)
    [] eventType = <<N_output_text_done>> -> OnOutputTextDone(w, evt)
    [] eventType = <<N_completed>> -> OnCompleted(w, evt)
    [] eventType = <<N_error>> -> OnError(w, evt)
    [] OTHER -> OnOutputTextDelta(w, evt)

\* switch (eventType)
Dispatch(w, eventType, evt) ==
  CASE eventType = <<N_output_text_delta>> -> OnOutputTextDelta(w, evt)
    [] eventType = <<N_content_part_delta>> -> OnContentPartDelta(w, evt)
    [] eventType = <<N_output_text_done>> -> OnOutputTextDone(w, evt)
    [] eventType = <<N_completed>> -> OnCompleted(w, evt)
    [] eventType = <<N_error>> -> OnError(w, evt)
    [] OTHER -> w

\* The body of the for loop over the frames of a chunk.
ProcessFrame(w0, frame) ==
  Let(ParseFields(frame), LAMBDA f :
    LET w == [w0 EXCEPT !.log = Append(@, f)] IN
    IF f.dataStr = <<>> THEN w
    ELSE IF f.dataStr = S_DONE THEN [w EXCEPT !.loading = FALSE]
    ELSE Let(JSONParse(f.dataStr), LAMBDA evt :
           IF ~evt.ok THEN w ELSE Dispatch(w, f.eventType, evt.v)))

RECURSIVE ProcessFrames(_, _)
ProcessFrames(w0, frames0) ==
  Let(<<w0, frames0>>, LAMBDA a :
    IF a[2] = <<>> THEN a[1]
    ELSE ProcessFrames(ProcessFrame(a[1], Head(a[2])), Tail(a[2])))

\* ProcessChunk with sseBuf = "" in place of sseBuf = frames.pop() || "".
ProcessChunkNoCarry(w0, bytes) ==
  Let(<<w0, Decode(w0.decPending, bytes)>>, LAMBDA a :
    LET w == a[1]
        dec == a[2]
    IN
    Let(SplitFrames(w.sseBuf \o dec.text), LAMBDA pieces :
      ProcessFrames([w EXCEPT !.decPending = dec.pending, !.sseBuf = <<>>],
                    SubSeq(pieces, 1, Len(pieces) - 1))))

\* ProcessChunk that takes the last piece for a frame too.
ProcessChunkAllPieces(w0, bytes) ==
  Let(<<w0, Decode(w0.decPending, bytes)>>, LAMBDA a :
    LET w == a[1]
        dec == a[2]
    IN
    Let(SplitFrames(w.sseBuf \o dec.text), LAMBDA pieces :
      ProcessFrames([w EXCEPT !.decPending = dec.pending, !.sseBuf = <<>>],
                    IF pieces[Len(pieces)] = <<>>
                    THEN SubSeq(pieces, 1, Len(pieces) - 1) ELSE pieces)))

\* ProcessChunk with decoder.decode(value): no {stream: true}, so a character
\* whose bytes two chunks bring is decoded as two malformed sequences.
ProcessChunkFreshDecoder(w0, bytes) ==
  Let(<<w0, Decode(<<>>, bytes)>>, LAMBDA a :
    LET w == a[1]
        dec == a[2]
        text == dec.text \o (IF dec.pending = <<>> THEN <<>> ELSE <<C_replacement>>)
    IN
    Let(SplitFrames(w.sseBuf \o text), LAMBDA pieces :
      ProcessFrames([w EXCEPT !.decPending = <<>>,
                              !.sseBuf = pieces[Len(pieces)]],
                    SubSeq(pieces, 1, Len(pieces) - 1))))

\* One pass of the read loop on a chunk of bytes: decode, split, keep the last
\* piece in sseBuf, dispatch the frames before it.
ProcessChunk(w0, bytes) ==
  Let(<<w0, Decode(w0.decPending, bytes)>>, LAMBDA a :
    LET w == a[1]
        dec == a[2]
    IN
    Let(SplitFrames(w.sseBuf \o dec.text), LAMBDA pieces :
      ProcessFrames([w EXCEPT !.decPending = dec.pending,
                              !.sseBuf = pieces[Len(pieces)]],
                    SubSeq(pieces, 1, Len(pieces) - 1))))

\* ------------------------------------------------------------ model texts

\* {"type":"entry"}   (16 characters)
T_entry ==
  <<"{", "\"", "t", "y", "p", "e", "\"", ":", "\"", "e", "n", "t", "r", "y", "\"", "}">>
\* {"type":"done"}   (15 characters)
T_done ==
  <<"{", "\"", "t", "y", "p", "e", "\"", ":", "\"", "d", "o", "n", "e", "\"", "}">>
\* {"a":"}\"{"}   (12 characters): a string holding }, an escaped quote and {
T_braces ==
  <<"{", "\"", "a", "\"", ":", "\"", "}", "\\", "\"", "{", "\"", "}">>
\* {"a":"\\"}   (10 characters): the closing quote follows two backslashes
T_bslash ==
  <<"{", "\"", "a", "\"", ":", "\"", "\\", "\\", "\"", "}">>
\* {"a":{"b":"c"}}   (15 characters)
T_nested ==
  <<"{", "\"", "a", "\"", ":", "{", "\"", "b", "\"", ":", "\"", "c", "\"", "}", "}">>
\* {"type":"entry","surface":"k"}   (30 characters, more than MAX_BUF + 1)
T_long ==
  <<"{", "\"", "t", "y", "p", "e", "\"", ":", "\"", "e", "n", "t", "r", "y", "\"", ",",
    "\"", "s", "u", "r", "f", "a", "c", "e", "\"", ":", "\"", "k", "\"", "}">>

\* The pieces a logical text is made of: well-formed top-level objects, noise
\* without { and ", and noise that holds a { or a ".
\* {"type":"entry","a":"}"}   (24 characters)
T_entry_a ==
  <<"{", QUOTE, "t", "y", "p", "e", QUOTE, ":", QUOTE, "e", "n", "t", "r", "y",
    QUOTE, ",", QUOTE, "a", QUOTE, ":", QUOTE, "}", QUOTE, "}">>

\* {"p":"x","bcde":{"type":"entry"}}   (33 characters; the 24 before the last
\* one start at the comma)
T_deep ==
  <<"{", QUOTE, "p", QUOTE, ":", QUOTE, "x", QUOTE,
    ",", QUOTE, "b", "c", "d", "e", QUOTE, ":">> \o T_entry \o <<"}">>

ObjPieces ==
  {"entry", "done", "braces", "bslash", "nested", "long", "entry_a", "deep"}
\* Text that closes at depth zero and is no JSON: {x}
MalformedPieces == {"bad"}
PlainNoise == {"nl", "close", "word", "back"}
OpenNoise == {"open", "quote"}

PieceText(id) ==
  CASE id = "entry" -> T_entry
    [] id = "done" -> T_done
    [] id = "braces" -> T_braces
    [] id = "bslash" -> T_bslash
    [] id = "nested" -> T_nested
    [] id = "long" -> T_long
    [] id = "entry_a" -> T_entry_a
    [] id = "bad" -> <<"{", "x", "}">>
    [] id = "deep" -> T_deep
    [] id = "nl" -> <<LF>>
    [] id = "close" -> <<"}">>
    [] id = "word" -> <<"x", ":", "]">>
    [] id = "back" -> <<BSLASH>>
    [] id = "open" -> <<"{">>
    [] id = "quote" -> <<QUOTE>>

RECURSIVE TextOf(_)
TextOf(ps) == IF ps = <<>> THEN <<>> ELSE PieceText(Head(ps)) \o TextOf(Tail(ps))

\* The texts of the object pieces of ps, in order.
RECURSIVE ObjTextsOf(_)
ObjTextsOf(ps) ==
  IF ps = <<>> THEN <<>>
  ELSE (IF Head(ps) \in ObjPieces THEN <<PieceText(Head(ps))>> ELSE <<>>)
       \o ObjTextsOf(Tail(ps))

\* ------------------------------------------------- responses of the endpoint

\* JSON.stringify of one character of a string, UTF-8 encoded.
EscapeChar(c) ==
  CASE c = QUOTE -> <<BSLASH, QUOTE>>
    [] c = BSLASH -> <<BSLASH, BSLASH>>
    [] c = LF -> <<BSLASH, "n">>
    [] c = C_o_umlaut -> <<B_lead, B_cont>>
    [] OTHER -> <<c>>

RECURSIVE EscapeText(_)
EscapeText(t) ==
  IF t = <<>> THEN <<>>
  ELSE IF Len(t) = 1 THEN EscapeChar(t[1])
  ELSE EscapeText(SubSeq(t, 1, Len(t) \div 2))
       \o EscapeText(SubSeq(t, Len(t) \div 2 + 1, Len(t)))

\* event: <name>\ndata: <payload>\n\n
SseFrame(name, payload) ==
  P_event \o <<SPACE>> \o name \o <<LF>> \o P_data \o <<SPACE>> \o payload \o <<LF, LF>>

\* data: <payload>\n\n
SseData(payload) == P_data \o <<SPACE>> \o payload \o <<LF, LF>>

\* {"delta":"<text>"}
DeltaPayload(text) ==
  <<"{", QUOTE>> \o S_delta \o <<QUOTE, ":", QUOTE>> \o EscapeText(text) \o <<QUOTE, "}">>

DeltaFrame(text) == SseFrame(N_output_text_delta, DeltaPayload(text))

\* {"type":"entry","sur
T_kopek_head ==
  <<"{", "\"", "t", "y", "p", "e", "\"", ":", "\"", "e", "n", "t", "r", "y", "\"", ",",
    "\"", "s", "u", "r">>
\* face":"köpek"}
T_kopek_tail ==
  <<"f", "a", "c", "e", "\"", ":", "\"", "k", C_o_umlaut, "p", "e", "k", "\"", "}">>

\* The object {"type":"entry","surface":"köpek"} as a value.
EntryKopek ==
  JObj(<< <<K_type, V_entry>>,
          <<<<"s", "u", "r", "f", "a", "c", "e">>,
            JStr(<<"k", C_o_umlaut, "p", "e", "k">>)>> >>)

\* The object {"type":"entry"} as a value.
EntryPlain == JObj(<< <<K_type, V_entry>> >>)

\* The responses a request can get: an event stream delivered in chunks, a
\* non-success status with a body, or a fetch that fails.
\*   example    the two chunks of the end-to-end example
\*   done       one data: [DONE] frame
\*   completed  one response.completed frame with data {}
\*   plain      one delta frame with {"type":"entry"}, no terminal signal
\*   doneobj    a delta frame with {"type":"done"}, then one with {"type":"entry"}
\*   httpempty  a non-success status with an empty body
\*   errors     a response.error frame with data {} and an entry delta, then a
\*              response.error frame with a message
\*   textdone   a delta frame with an object without type and an entry, and a
\*              response.output_text.done frame
\*   rest       a delta frame with the tail of the example's entry followed by
\*              data: [DO, where the stream ends
ResponseIds ==
  {"example", "done", "completed", "plain", "doneobj", "http", "netfail",
   "httpempty", "errors", "textdone", "rest"}

\* {"error":{"message":"x"}}
T_error_x ==
  <<"{", QUOTE, "e", "r", "r", "o", "r", QUOTE, ":", "{", QUOTE, "m", "e", "s",
    "s", "a", "g", "e", QUOTE, ":", QUOTE, "x", QUOTE, "}", "}">>

S_bad == <<"b", "a", "d">>

ResponseTable(id) ==
  CASE id = "example" ->
         [kind |-> "stream", body |-> <<>>,
          chunks |-> <<DeltaFrame(T_kopek_head),
                       DeltaFrame(T_kopek_tail) \o SseFrame(N_completed, <<"{", "}">>)>>]
    [] id = "done" ->
         [kind |-> "stream", body |-> <<>>, chunks |-> <<SseData(S_DONE)>>]
    [] id = "completed" ->
         [kind |-> "stream", body |-> <<>>,
          chunks |-> <<SseFrame(N_completed, <<"{", "}">>)>>]
    [] id = "plain" ->
         [kind |-> "stream", body |-> <<>>, chunks |-> <<DeltaFrame(T_entry)>>]
    [] id = "doneobj" ->
         [kind |-> "stream", body |-> <<>>,
          chunks |-> <<DeltaFrame(T_done \o <<LF>>), DeltaFrame(T_entry)>>]
    [] id = "http" -> [kind |-> "http", body |-> S_bad, chunks |-> <<>>]
    [] id = "netfail" -> [kind |-> "netfail", body |-> <<>>, chunks |-> <<>>]
    [] id = "httpempty" -> [kind |-> "http", body |-> <<>>, chunks |-> <<>>]
    [] id = "errors" ->
         [kind |-> "stream", body |-> <<>>,
          chunks |-> <<SseFrame(N_error, <<"{", "}">>) \o DeltaFrame(T_entry),
                       SseFrame(N_error, T_error_x)>>]
    [] id = "textdone" ->
         [kind |-> "stream", body |-> <<>>,
          chunks |-> <<DeltaFrame(T_bslash \o T_entry)
                       \o SseFrame(N_output_text_done, <<"{", "}">>)>>]
    [] id = "rest" ->
         [kind |-> "stream", body |-> <<>>,
          chunks |-> <<DeltaFrame(T_kopek_tail) \o P_data \o <<SPACE, "[", "D", "O">>>>]

Responses == [id \in ResponseIds |-> ResponseTable(id)]

ResponseOf(id) == Responses[id]

\* ------------------------------------------------------------ state

VARIABLES
  xPieces,   \* the pieces of the logical text fed to the extractor
  xOff,      \* how many of its characters have been appended
  xBuf,      \* textBuf
  xCands,    \* the candidates sliced out so far (toEmit of every call)
  xOut,      \* the values handed to emitObject so far
  xAppends,  \* the handleTextChunk calls made with characters of the text
  xLast,     \* the last call: values handed out, cap applied, append or flush
  sc,        \* the scanner of one extractJsonObjects call, between iterations
  entries,   \* the component's entries
  error,     \* the component's error: <<>> for null, <<message>> otherwise
  loading,   \* the component's loading
  abortRef,  \* abortRef.current: the session whose controller it holds, 0 for null
  nSessions, \* the runStream calls that passed the guards
  sess,      \* per runStream call: its locals, its request, and what it did
  lastCall,  \* <<apiKey, query>> at the latest runStream call, <<>> before any
  fr,        \* one event stream fed to the read loop in chunks of any size
  gl         \* the tutor page: data, apiKey, glossMap and its gloss effect

xvars == <<xPieces, xOff, xBuf, xCands, xOut, xAppends, xLast>>
svars == <<entries, error, loading, abortRef, nSessions, sess, lastCall>>
vars == <<xPieces, xOff, xBuf, xCands, xOut, xAppends, xLast, sc,
          entries, error, loading, abortRef, nSessions, sess, lastCall, fr,
          gl>>

\* The runStream calls the model follows.
MaxSessions == 2
Sessions == 1..MaxSessions

\* A runStream call that has not been made.  pc is the await the call is
\* suspended at ("fetch", "text" for res.text(), "read") or "ret" once it has
\* returned; aborted is ac.signal.aborted; transport is the state of the
\* request's connection.  For the claims: reads counts the reader.read() calls,
\* emitted the entries the call appended, sig the terminal signals it met,
\* ended how it returned, abortAt the await it was suspended at when aborted.
\* key and input are the credential and the user text of the request; frames
\* counts the frames the call went through, errSets its setError calls,
\* handed the values it handed to emitObject whose type is not "done".
NoSession ==
  [pc |-> "idle", resp |-> "none", nread |-> 0, decPending |-> <<>>,
   sseBuf |-> <<>>, textBuf |-> <<>>, aborted |-> FALSE, transport |-> "none",
   reads |-> 0, emitted |-> 0, sig |-> {}, ended |-> "", abortAt |-> "",
   key |-> <<>>, input |-> <<>>, frames |-> 0, errSets |-> 0, handed |-> 0]

SessIdle ==
  /\ entries = <<>>
  /\ error = <<>>
  /\ loading = FALSE
  /\ abortRef = 0
  /\ nSessions = 0
  /\ sess = [s \in Sessions |-> NoSession]
  /\ lastCall = <<>>

\* The read loop before its first pass, on a world w with nothing in it.
EmptyWorld ==
  [decPending |-> <<>>, sseBuf |-> <<>>, textBuf |-> <<>>, entries |-> <<>>,
   error |-> <<>>, loading |-> TRUE, doneSeen |-> FALSE, log |-> <<>>,
   objs |-> <<>>, errSets |-> 0]

\* fr.ids names the frames of the stream, fr.off counts the bytes fed, fr.w is
\* what the read loop holds after them, fr.split records that a chunk ended
\* inside the blank line that ends a frame.
FrIdle == fr = [ids |-> <<>>, off |-> 0, w |-> EmptyWorld, split |-> FALSE]

XText == TextOf(xPieces)

XIdle ==
  /\ xOff = 0
  /\ xBuf = <<>>
  /\ xCands = <<>>
  /\ xOut = <<>>
  /\ xAppends = 0
  /\ xLast = [emit |-> 0, cut |-> FALSE, flush |-> FALSE, calls |-> 0]

ScIdle == sc = ScanInit(<<>>)

\* The tutor page after its first render: data is null (NoData), apiKey is
\* "", glossMap is {} and the gloss effect has run and returned.  glossMap is
\* held as the set of its keys: the effect reads only whether
\* glossMap[surf] is undefined.  pc is "effect" when a render has changed a
\* dependency of the effect and it is due to run, "fetch" while run() awaits
\* fetchGlosses, "idle" otherwise; toFetch is the argument of that call.
NoData == [lemma |-> "", examples |-> <<>>, null |-> TRUE]

GlIdle ==
  gl = [data |-> NoData, apiKey |-> "", glossMap |-> {}, pc |-> "idle",
        toFetch |-> <<>>, glossLoading |-> FALSE]

\* ------------------------------------------- the extractor, call by call

\* The state after a call r of extractJsonObjects, emitObject calls included.
XAfter(r, isFlush) ==
  /\ \E w \in {EmitAll([EmptyWorld EXCEPT !.entries = entries,
                                         !.loading = loading], r.objs)} :
       /\ entries' = w.entries
       /\ loading' = w.loading
  /\ xBuf' = r.buf
  /\ xCands' = xCands \o r.toEmit
  /\ xOut' = xOut \o r.objs
  /\ xLast' = [emit |-> Len(r.objs), cut |-> r.cut, flush |-> isFlush,
               calls |-> 1]

\* handleTextChunk with the next k characters of the text.
XAppend(k) ==
  /\ k \in 1..(Len(XText) - xOff)
  /\ XAfter(HandleTextChunk(xBuf, SubSeq(XText, xOff + 1, xOff + k)), FALSE)
  /\ xOff' = xOff + k
  /\ xAppends' = xAppends + 1
  /\ UNCHANGED <<xPieces, sc>>
  /\ UNCHANGED <<error, abortRef, nSessions, sess, lastCall, fr, gl>>

\* handleTextChunk with the whole text at once.
XScanWhole ==
  /\ xOff = 0
  /\ XAppend(Len(XText))

\* extractJsonObjects with nothing appended (the flush of
\* response.output_text.done and response.completed).
XFlush ==
  /\ ~xLast.flush
  /\ XAfter(ExtractJsonObjects(xBuf), TRUE)
  /\ UNCHANGED <<xPieces, xOff, xAppends, sc>>
  /\ UNCHANGED <<error, abortRef, nSessions, sess, lastCall, fr, gl>>

\* An endless stream of noise: text deltas in which no { appears.
NoiseChunks == {<<"x">>, <<"}", "y", QUOTE, "z", BSLASH>>}

XAppendNoise(c) ==
  /\ xPieces = <<>>
  /\ XAfter(HandleTextChunk(xBuf, c), FALSE)
  /\ UNCHANGED <<xPieces, xOff, xAppends, sc>>
  /\ UNCHANGED <<error, abortRef, nSessions, sess, lastCall, fr, gl>>

\* One pass over every text of at most MaxPieces pieces.
MaxPieces == 3

RECURSIVE SeqsUpTo(_, _)
SeqsUpTo(S, n) ==
  IF n = 0 THEN {<<>>}
  ELSE LET R == SeqsUpTo(S, n - 1) IN
       R \cup {Append(r, p) : r \in {q \in R : Len(q) = n - 1}, p \in S}

ScanPieces ==
  (ObjPieces \ {"long", "done", "entry_a", "deep"}) \cup PlainNoise \cup OpenNoise

ScanInitState ==
  /\ xPieces \in SeqsUpTo(ScanPieces, MaxPieces) \ {<<>>}
  /\ XIdle
  /\ ScIdle
  /\ SessIdle
  /\ FrIdle
  /\ GlIdle

ScanNext == XScanWhole \/ XFlush

SpecScan == ScanInitState /\ [][ScanNext]_vars

\* The texts appended in every possible split: single objects, two objects on
\* two lines, and the empty text (noise only).
AppendCases ==
  {<<"entry">>, <<"braces">>, <<"bslash">>, <<"nested">>, <<"long">>,
   <<"entry", "nl", "done", "nl">>, <<"entry_a", "entry", "nl", "entry_a">>,
   <<"bad", "entry", "nl", "bad">>, <<"deep">>, <<>>}

AppendInitState ==
  /\ xPieces \in AppendCases
  /\ XIdle
  /\ ScIdle
  /\ SessIdle
  /\ FrIdle
  /\ GlIdle

AppendNext ==
  \/ \E k \in 1..Len(XText) : XAppend(k)
  \/ XFlush
  \/ \E c \in NoiseChunks : XAppendNoise(c)

SpecAppend == AppendInitState /\ [][AppendNext]_vars

\* ------------------------------------------- the scanner, step by step

StepCases ==
  {<<"braces">>, <<"bslash">>, <<"nested">>, <<"entry", "nl", "done">>,
   <<"close", "braces", "back", "bslash">>, <<"word", "nested", "close">>,
   <<"quote", "entry">>, <<"open", "entry", "close">>}

StepInitState ==
  /\ xPieces \in StepCases
  /\ XIdle
  /\ sc = ScanInit(XText)
  /\ SessIdle
  /\ FrIdle
  /\ GlIdle

ScStep ==
  /\ ScanMore(sc)
  /\ sc' = ScanStep(sc)
  /\ UNCHANGED xvars
  /\ UNCHANGED <<svars, fr, gl>>

SpecStep == StepInitState /\ [][ScStep]_vars

\* The loop is synchronous code: once entered it runs its next iteration.
FairStep == SpecStep /\ WF_vars(ScStep)

\* ------------------------------------------- the frames of a split stream

\* The frames of the streams: a body and the blank line that ends it.
\*   body "d"  data:a
\*   body "e"  event:e LF data: followed by the two bytes of an o-umlaut
\*   ends      LF LF, CR LF CR LF, LF CR LF
FrameIds == {"d", "e"} \X {"nn", "rnrn", "nrn"}

FrBody(b) ==
  IF b = "d" THEN P_data \o <<"a">>
  ELSE P_event \o <<"e", LF>> \o P_data \o <<B_lead, B_cont>>

FrEnd(t) ==
  CASE t = "nn" -> <<LF, LF>>
    [] t = "rnrn" -> <<CR, LF, CR, LF>>
    [] t = "nrn" -> <<LF, CR, LF>>

\* The fields the frame holds.
FrFields(id) ==
  IF id[1] = "d" THEN [eventType |-> <<>>, dataStr |-> <<"a">>]
  ELSE [eventType |-> << <<"e">> >>, dataStr |-> <<C_o_umlaut>>]

RECURSIVE FrText(_)
FrText(ids) ==
  IF ids = <<>> THEN <<>>
  ELSE FrBody(Head(ids)[1]) \o FrEnd(Head(ids)[2]) \o FrText(Tail(ids))

\* The offsets strictly inside the blank line that ends a frame of ids.
RECURSIVE FrInsideEnds(_, _)
FrInsideEnds(ids, base) ==
  IF ids = <<>> THEN {}
  ELSE LET a == base + Len(FrBody(Head(ids)[1]))
           b == a + Len(FrEnd(Head(ids)[2]))
       IN ((a + 1)..(b - 1)) \cup FrInsideEnds(Tail(ids), b)

\* The frames of a stream.
MaxFrames == 2

\* reader.read() resolves with the next k bytes of the stream: one pass of
\* the read loop.
FrFeed(k) ==
  /\ fr.off + k <= Len(FrText(fr.ids))
  /\ \E w \in {ProcessChunk(fr.w, SubSeq(FrText(fr.ids), fr.off + 1, fr.off + k))} :
       fr' = [fr EXCEPT !.w = w, !.off = @ + k,
                        !.split = @ \/ (fr.off + k) \in FrInsideEnds(fr.ids, 0)]
  /\ UNCHANGED <<svars, xvars, sc, gl>>

FramesInitState ==
  /\ fr \in {[ids |-> ids, off |-> 0, w |-> EmptyWorld, split |-> FALSE] :
               ids \in SeqsUpTo(FrameIds, MaxFrames) \ {<<>>}}
  /\ SessIdle
  /\ xPieces = <<>>
  /\ XIdle
  /\ ScIdle
  /\ GlIdle

FramesNext == \E k \in 1..(Len(FrText(fr.ids)) - fr.off) : FrFeed(k)

SpecFrames == FramesInitState /\ [][FramesNext]_vars

\* ------------------------------------------- the frames of a chunk

\* {"type":"en
T_h ==
  <<"{", QUOTE, "t", "y", "p", "e", QUOTE, ":", QUOTE, "e", "n">>
\* try","s":"ö"}
T_t ==
  <<"t", "r", "y", QUOTE, ",", QUOTE, "s", QUOTE, ":", QUOTE, C_o_umlaut, QUOTE, "}">>
\* {"type":"entry","s":"ö"}
T_entry_s == T_h \o T_t

\* The object {"type":"entry","s":"ö"} as a value.
EntryS == JObj(<< <<K_type, V_entry>>, <<<<"s">>, JStr(<<C_o_umlaut>>)>> >>)

\* {"delta":{"type":"<type>","text":"<text>"}}
PartPayload(type, text) ==
  <<"{", QUOTE>> \o S_delta \o <<QUOTE, ":", "{", QUOTE>> \o K_type
  \o <<QUOTE, ":", QUOTE>> \o type \o <<QUOTE, ",", QUOTE>> \o S_text
  \o <<QUOTE, ":", QUOTE>> \o EscapeText(text) \o <<QUOTE, "}", "}">>

\* {"delta":{"type":"output_text.delta"}}
PartNoTextPayload ==
  <<"{", QUOTE>> \o S_delta \o <<QUOTE, ":", "{", QUOTE>> \o K_type
  \o <<QUOTE, ":", QUOTE>> \o S_output_text_delta \o <<QUOTE, "}", "}">>

\* {"delta":<json>}
RawDeltaPayload(json) ==
  <<"{", QUOTE>> \o S_delta \o <<QUOTE, ":">> \o json \o <<"}">>

\* The frames of the streams, as the bytes on the wire:
\*   head      output_text.delta with the string {"type":"en
\*   tail      output_text.delta with the string try","s":"ö"}
\*   whole     output_text.delta with the string {"type":"entry","s":"ö"}
\*   cpart     content_part.delta, type output_text.delta, text {"type":"en
\*   cother    content_part.delta, type text, text {"type":"en
\*   cnotext   content_part.delta, type output_text.delta, no text
\*   dtrue     output_text.delta with delta true
\*   darr      output_text.delta with delta ["{\"type\":\"entry\"}"]
\*   empty     response.completed with an empty data payload
\*   nojson    response.error with the payload {x
\*   unknown   response.created with the payload {"delta":"}"}
\*   noevent   no event line, the payload {"delta":"}"}
\*   blank     data: CR LF CR LF
\*   done      data: [DONE]
\*   err       response.error with the payload {}
\*   partial   data: [DONE] with no blank line after it (the stream ends there)
StreamFrameIds ==
  {"head", "tail", "whole", "cpart", "cother", "cnotext", "dtrue", "darr",
   "empty", "nojson", "unknown", "noevent", "blank", "done", "err", "partial"}

StFrame(id) ==
  CASE id = "head" -> DeltaFrame(T_h)
    [] id = "tail" -> DeltaFrame(T_t)
    [] id = "whole" -> DeltaFrame(T_entry_s)
    [] id = "cpart" ->
         SseFrame(N_content_part_delta, PartPayload(S_output_text_delta, T_h))
    [] id = "cother" ->
         SseFrame(N_content_part_delta, PartPayload(S_text, T_h))
    [] id = "cnotext" -> SseFrame(N_content_part_delta, PartNoTextPayload)
    [] id = "dtrue" -> SseFrame(N_output_text_delta, RawDeltaPayload(LitTrue))
    [] id = "darr" ->
         SseFrame(N_output_text_delta,
                  RawDeltaPayload(<<"[", QUOTE>> \o EscapeText(T_entry) \o <<QUOTE, "]">>))
    [] id = "empty" -> SseFrame(N_completed, <<>>)
    [] id = "nojson" -> SseFrame(N_error, <<"{", "x">>)
    [] id = "unknown" -> SseFrame(N_created, DeltaPayload(<<"}">>))
    [] id = "noevent" -> SseData(DeltaPayload(<<"}">>))
    [] id = "blank" -> P_data \o <<CR, LF, CR, LF>>
    [] id = "done" -> SseData(S_DONE)
    [] id = "err" -> SseFrame(N_error, <<"{", "}">>)
    [] id = "partial" -> P_data \o <<SPACE>> \o S_DONE

StFrames == [id \in StreamFrameIds |-> StFrame(id)]

\* The frames that end with a blank line, and the length of that blank line.
StTerminated(id) == id # "partial"

StEndLen(id) == IF id = "blank" THEN 4 ELSE 2

\* The text of a terminated frame as the for loop over the frames sees it.
StBodies ==
  [id \in StreamFrameIds \ {"partial"} |->
     Decode(<<>>, SubSeq(StFrames[id], 1, Len(StFrames[id]) - StEndLen(id))).text]

RECURSIVE StText(_)
StText(ids) == IF ids = <<>> THEN <<>> ELSE StFrames[Head(ids)] \o StText(Tail(ids))

\* The frames a chunk holds.
MaxChunkFrames == 2

\* The frames of the chunks: those the payload checks and the default case
\* are about, and those the delta cases are about.
PayloadIds == {"empty", "nojson", "unknown", "noevent", "head", "tail"}
DeltaIds == {"cpart", "cother", "cnotext", "dtrue", "darr", "tail"}

\* reader.read() resolves with the next n frames of the stream in one chunk:
\* one pass of the read loop.  fr.last counts the frames of the pass.
DiFeed(n) ==
  /\ fr.off + n <= Len(fr.ids)
  /\ \E w \in {ProcessChunk(fr.w, StText(SubSeq(fr.ids, fr.off + 1, fr.off + n)))} :
       fr' = [fr EXCEPT !.w = w, !.off = @ + n, !.last = n]
  /\ UNCHANGED <<svars, xvars, sc, gl>>

DispatchInitState ==
  /\ fr \in {[ids |-> ids, off |-> 0, w |-> EmptyWorld, split |-> FALSE,
              eof |-> FALSE, last |-> 0] :
               ids \in (SeqsUpTo(PayloadIds, MaxChunkFrames)
                        \cup SeqsUpTo(DeltaIds, MaxChunkFrames)) \ {<<>>}}
  /\ SessIdle
  /\ xPieces = <<>>
  /\ XIdle
  /\ ScIdle
  /\ GlIdle

DispatchNext == \E n \in 1..(Len(fr.ids) - fr.off) : DiFeed(n)

SpecDispatch == DispatchInitState /\ [][DispatchNext]_vars

\* ------------------------------------------- one stream, cut at any byte

\* The streams fed to the read loop byte by byte: an entry with a two-byte
\* character and [DONE]; two ignored frames and a last frame without its
\* blank line.
StreamCases == {<<"whole", "done">>, <<"noevent", "blank", "partial">>}

StTexts == [ids \in StreamCases |-> StText(ids)]

\* The offsets at which the terminated frames of ids end, in order.
RECURSIVE StEnds(_, _)
StEnds(ids, base) ==
  IF ids = <<>> \/ ~StTerminated(Head(ids)) THEN <<>>
  ELSE <<base + Len(StFrames[Head(ids)])>>
       \o StEnds(Tail(ids), base + Len(StFrames[Head(ids)]))

StEndsOf == [ids \in StreamCases |-> StEnds(ids, 0)]

\* reader.read() resolves with the next k bytes of the stream: one pass of the
\* read loop.  fr.split records that a chunk ended between the two bytes of a
\* character.
StFeed(k) ==
  /\ ~fr.eof
  /\ fr.off + k <= Len(StTexts[fr.ids])
  /\ \E w \in {ProcessChunk(fr.w, SubSeq(StTexts[fr.ids], fr.off + 1, fr.off + k))} :
       fr' = [fr EXCEPT !.w = w, !.off = @ + k,
                        !.last = Len(w.log) - Len(fr.w.log),
                        !.split = @ \/ StTexts[fr.ids][fr.off + k] = B_lead]
  /\ UNCHANGED <<svars, xvars, sc, gl>>

\* reader.read() resolves with done: the loop breaks and nothing follows it.
StEof ==
  /\ ~fr.eof
  /\ fr.off = Len(StTexts[fr.ids])
  /\ fr' = [fr EXCEPT !.eof = TRUE, !.last = 0]
  /\ UNCHANGED <<svars, xvars, sc, gl>>

StreamInitState ==
  /\ fr \in {[ids |-> ids, off |-> 0, w |-> EmptyWorld, split |-> FALSE,
              eof |-> FALSE, last |-> 0] : ids \in StreamCases}
  /\ SessIdle
  /\ xPieces = <<>>
  /\ XIdle
  /\ ScIdle
  /\ GlIdle

StreamNext ==
  \/ \E k \in 1..(Len(StTexts[fr.ids]) - fr.off) : StFeed(k)
  \/ StEof

SpecStream == StreamInitState /\ [][StreamNext]_vars

\* ------------------------------------------- runStream, await by await

\* What the request sees of its controller: fetch is given signal: ac.signal.
SignalledNever(x) == FALSE

Signalled(x) == x.aborted

\* controller.abort() for session s (nothing for s = 0, a null abortRef): the
\* signal is set and a request that watches it is torn down.
AbortController(ss, s) ==
  IF s = 0 THEN ss
  ELSE [ss EXCEPT ![s] =
          LET x == [@ EXCEPT !.aborted = TRUE] IN
          [x EXCEPT !.abortAt = IF ss[s].aborted THEN @ ELSE ss[s].pc,
                    !.transport = IF @ = "open" /\ Signalled(x) THEN "aborted" ELSE @]]

\* abortRef.current?.abort() at the start of runStream
SupersedeNone(ss, ref) == ss

SupersedePrevious(ss, ref) == AbortController(ss, ref)

\* The catch clause of runStream on an exception with this name and message.
CatchAll(w, name, msg) ==
  [w EXCEPT !.error = <<msg>>, !.loading = FALSE, !.errSets = @ + 1]

Catch(w, name, msg) ==
  IF name = "AbortError" THEN w
  ELSE [w EXCEPT !.error = <<msg>>, !.loading = FALSE, !.errSets = @ + 1]

\* The record the read loop of session s acts on.
World(s) ==
  [decPending |-> sess[s].decPending, sseBuf |-> sess[s].sseBuf,
   textBuf |-> sess[s].textBuf, entries |-> entries, error |-> error,
   loading |-> loading, doneSeen |-> FALSE, log |-> <<>>, objs |-> <<>>,
   errSets |-> 0]

\* The terminal signals among the frames: a [DONE] payload, a
\* response.completed or response.error event with a JSON payload.
SignalOf(frame) ==
  Let(ParseFields(frame), LAMBDA f :
    IF f.dataStr = S_DONE THEN {"DONE"}
    ELSE IF f.eventType \notin {<<N_completed>>, <<N_error>>, <<N_output_text_done>>}
    THEN {}
    ELSE IF ~JSONParse(f.dataStr).ok THEN {}
    ELSE IF f.eventType = <<N_completed>> THEN {"completed"}
    ELSE IF f.eventType = <<N_output_text_done>> THEN {"textdone"}
    ELSE {"error"})

SignalsOf(frames0) ==
  Let(frames0, LAMBDA frames : UNION {SignalOf(frames[k]) : k \in 1..Len(frames)})

\* The complete frames a chunk of bytes brings to session s.
FramesOf(s, bytes) ==
  LET pieces == SplitFrames(sess[s].sseBuf \o Decode(sess[s].decPending, bytes).text)
  IN SubSeq(pieces, 1, Len(pieces) - 1)

SetComponent(w) ==
  /\ entries' = w.entries
  /\ error' = w.error
  /\ loading' = w.loading

\* The values of apiKey (<<>> for null) and of query at a click on Analyze.
ApiKeys == {<<>>, <<"k">>}
Queries == {<<"d", "o", "g">>, <<SPACE>>}

\* runStream up to await fetch(...): the Analyze button is enabled while
\* loading is false; runStream returns at once without a key or with a blank
\* query; r is the response the request will get.
AcceptsAny(apiKey, query) == TRUE

\* The guards of runStream: if (!apiKey) return; if (!query.trim()) return;
Accepts(apiKey, query) == apiKey # <<>> /\ Trim(query) # <<>>

\* RunStream with buffers that outlive the call: the new session starts with
\* what the session before it left in decPending, sseBuf and textBuf.
RunStreamKeepBuffers(r, apiKey, query) ==
  /\ ~loading
  /\ Accepts(apiKey, query)
  /\ nSessions < MaxSessions
  /\ lastCall' = <<apiKey, query>>
  /\ entries' = <<>>
  /\ error' = <<>>
  /\ loading' = TRUE
  /\ nSessions' = nSessions + 1
  /\ abortRef' = nSessions + 1
  /\ sess' = [SupersedePrevious(sess, abortRef) EXCEPT ![nSessions + 1] =
                [NoSession EXCEPT
                   !.pc = "fetch", !.resp = r, !.transport = "open",
                   !.key = apiKey, !.input = Trim(query),
                   !.decPending = IF abortRef = 0 THEN @ ELSE sess[abortRef].decPending,
                   !.sseBuf = IF abortRef = 0 THEN @ ELSE sess[abortRef].sseBuf,
                   !.textBuf = IF abortRef = 0 THEN @ ELSE sess[abortRef].textBuf]]
  /\ UNCHANGED <<xvars, sc, fr, gl>>

RunStream(r, apiKey, query) ==
  /\ ~loading
  /\ Accepts(apiKey, query)
  /\ nSessions < MaxSessions
  /\ lastCall' = <<apiKey, query>>
  /\ entries' = <<>>
  /\ error' = <<>>
  /\ loading' = TRUE
  /\ nSessions' = nSessions + 1
  /\ abortRef' = nSessions + 1
  /\ sess' = [SupersedePrevious(sess, abortRef) EXCEPT ![nSessions + 1] =
                [NoSession EXCEPT !.pc = "fetch", !.resp = r, !.transport = "open",
                                  !.key = apiKey, !.input = Trim(query)]]
  /\ UNCHANGED <<xvars, sc, fr, gl>>

\* runStream returning at one of its guards.
RunStreamReturns(apiKey, query) ==
  /\ ~loading
  /\ ~Accepts(apiKey, query)
  /\ lastCall' = <<apiKey, query>>
  /\ UNCHANGED <<entries, error, loading, abortRef, nSessions, sess, xvars, sc, fr, gl>>

\* The Cancel button, shown while loading: abortRef.current?.abort()
Cancel ==
  /\ loading
  /\ sess' = AbortController(sess, abortRef)
  /\ UNCHANGED <<entries, error, loading, abortRef, nSessions, lastCall, xvars, sc, fr, gl>>

\* fetch resolves with res.ok and a body: the reader is taken and the first
\* reader.read() is awaited.
FetchOk(s) ==
  /\ sess[s].pc = "fetch"
  /\ ~Signalled(sess[s])
  /\ ResponseOf(sess[s].resp).kind = "stream"
  /\ sess' = [sess EXCEPT ![s].pc = "read", ![s].reads = @ + 1]
  /\ UNCHANGED <<entries, error, loading, abortRef, nSessions, lastCall, xvars, sc, fr, gl>>

\* fetch resolves with a non-success status: res.text() is awaited.
FetchBad(s) ==
  /\ sess[s].pc = "fetch"
  /\ ~Signalled(sess[s])
  /\ ResponseOf(sess[s].resp).kind = "http"
  /\ sess' = [sess EXCEPT ![s].pc = "text"]
  /\ UNCHANGED <<entries, error, loading, abortRef, nSessions, lastCall, xvars, sc, fr, gl>>

\* fetch rejects with a TypeError: the catch clause runs.
FetchFail(s) ==
  /\ sess[s].pc = "fetch"
  /\ ~Signalled(sess[s])
  /\ ResponseOf(sess[s].resp).kind = "netfail"
  /\ SetComponent(Catch(World(s), "TypeError", S_FailedToFetch))
  /\ sess' = [sess EXCEPT ![s].pc = "ret", ![s].ended = "error",
                          ![s].errSets = @ + Catch(World(s), "TypeError", S_FailedToFetch).errSets,
                          ![s].transport = "closed"]
  /\ UNCHANGED <<abortRef, nSessions, lastCall, xvars, sc, fr, gl>>

\* res.text() resolves: throw new Error(body), caught by the catch clause.
TextDone(s) ==
  /\ sess[s].pc = "text"
  /\ ~Signalled(sess[s])
  /\ SetComponent(Catch(World(s), "Error", ResponseOf(sess[s].resp).body))
  /\ sess' = [sess EXCEPT ![s].pc = "ret", ![s].ended = "error",
                          ![s].errSets = @ + Catch(World(s), "Error", ResponseOf(sess[s].resp).body).errSets,
                          ![s].transport = "closed"]
  /\ UNCHANGED <<abortRef, nSessions, lastCall, xvars, sc, fr, gl>>

\* The pending await of an aborted request rejects with an AbortError.
Aborted(s) ==
  /\ sess[s].pc \in {"fetch", "text", "read"}
  /\ Signalled(sess[s])
  /\ SetComponent(Catch(World(s), "AbortError", <<>>))
  /\ sess' = [sess EXCEPT ![s].pc = "ret", ![s].ended = "abort",
                          ![s].errSets = @ + Catch(World(s), "AbortError", <<>>).errSets]
  /\ UNCHANGED <<abortRef, nSessions, lastCall, xvars, sc, fr, gl>>

\* reader.read() resolves with the next chunk: one pass of the read loop, up
\* to the next reader.read().
ReadChunk(s) ==
  /\ sess[s].pc = "read"
  /\ ~Signalled(sess[s])
  /\ sess[s].nread < Len(ResponseOf(sess[s].resp).chunks)
  /\ \E bytes \in {ResponseOf(sess[s].resp).chunks[sess[s].nread + 1]} :
     \E w \in {ProcessChunk(World(s), bytes)} :
     /\ SetComponent(w)
     /\ sess' = [sess EXCEPT
          ![s].decPending = w.decPending,
          ![s].sseBuf = w.sseBuf,
          ![s].textBuf = w.textBuf,
          ![s].nread = @ + 1,
          ![s].reads = @ + 1,
          ![s].emitted = @ + Len(w.entries) - Len(entries),
          ![s].frames = @ + Len(w.log),
          ![s].handed = @ + Cardinality({k \in 1..Len(w.objs) :
                                          GetKey(w.objs[k], K_type) # V_done}),
          ![s].errSets = @ + w.errSets,
          ![s].sig = @ \cup SignalsOf(FramesOf(s, bytes))
                       \cup (IF w.doneSeen THEN {"doneobj"} ELSE {})]
  /\ UNCHANGED <<abortRef, nSessions, lastCall, xvars, sc, fr, gl>>

\* reader.read() resolves with done: the loop breaks and runStream returns.
ReadEof(s) ==
  /\ sess[s].pc = "read"
  /\ ~Signalled(sess[s])
  /\ sess[s].nread = Len(ResponseOf(sess[s].resp).chunks)
  /\ sess' = [sess EXCEPT ![s].pc = "ret", ![s].ended = "eof",
                          ![s].transport = "closed"]
  /\ UNCHANGED <<entries, error, loading, abortRef, nSessions, lastCall, xvars, sc, fr, gl>>

\* reader.read() rejects with a TypeError (the connection broke).
ReadFail(s) ==
  /\ sess[s].pc = "read"
  /\ ~Signalled(sess[s])
  /\ SetComponent(Catch(World(s), "TypeError", S_FailedToFetch))
  /\ sess' = [sess EXCEPT ![s].pc = "ret", ![s].ended = "error",
                          ![s].errSets = @ + Catch(World(s), "TypeError", S_FailedToFetch).errSets,
                          ![s].transport = "closed"]
  /\ UNCHANGED <<abortRef, nSessions, lastCall, xvars, sc, fr, gl>>

Init ==
  /\ SessIdle
  /\ FrIdle
  /\ GlIdle
  /\ xPieces = <<>>
  /\ XIdle
  /\ ScIdle

Next ==
  \/ \E r \in ResponseIds, apiKey \in ApiKeys, query \in Queries :
       RunStream(r, apiKey, query)
  \/ \E apiKey \in ApiKeys, query \in Queries : RunStreamReturns(apiKey, query)
  \/ Cancel
  \/ \E s \in Sessions :
       \/ FetchOk(s)
       \/ FetchBad(s)
       \/ FetchFail(s)
       \/ TextDone(s)
       \/ Aborted(s)
       \/ ReadChunk(s)
       \/ ReadEof(s)
       \/ ReadFail(s)

Spec == Init /\ [][Next]_vars

\* The steps the event loop takes by itself: a pending await resolves or
\* rejects and runStream runs to its next await.  Clicks are up to the user.
SessionStep ==
  \E s \in Sessions :
    \/ FetchOk(s)
    \/ FetchBad(s)
    \/ FetchFail(s)
    \/ TextDone(s)
    \/ Aborted(s)
    \/ ReadChunk(s)
    \/ ReadEof(s)
    \/ ReadFail(s)

FairSpec == Spec /\ WF_vars(SessionStep)

\* ------------------------------------------- the gloss effect of the tutor

\* toFetch = Array.from(words).slice(0, 30): the source asks for 30 words at
\* most in one call; the model scales this to MaxGlossBatch.
MaxGlossBatch == 2

\* String.prototype.toLowerCase on the words of the model.
ToLowerCase(str) ==
  CASE str = "Ev" -> "ev"
    [] str = "Gel" -> "gel"
    [] OTHER -> str

\* A word of an example: its surface and what getWordRoot finds in its
\* segments ("" when it finds no root segment: the effect tests only
\* whether the root is truthy).
Word(surface, root) == [surface |-> surface, root |-> root]

\* The analysis results the model follows.  data_two: the main word, one
\* word twice in two cases, one word with no surface.  data_three: more new
\* words than one call asks for, and a capitalised lemma.
GlossData(id) ==
  CASE id = "data_two" ->
         [lemma |-> "gel", null |-> FALSE,
          examples |-> << <<Word("Ev", "ev"), Word("geliyor", "gel")>>,
                          <<Word("ev", "ev"), Word("", ""), Word("su", "su")>> >>]
    [] id = "data_three" ->
         [lemma |-> "Gel", null |-> FALSE,
          examples |-> << <<Word("su", "su"), Word("at", ""), Word("gel", "gel")>>,
                          <<Word("ev", "ev")>> >>]
    [] id = "data_none" -> NoData

GlossDataIds == {"data_two", "data_three", "data_none"}

\* for (const ex of data.examples || []) for (const w of ex.tr.words)
RECURSIVE WordsOfExamples(_)
WordsOfExamples(exs) ==
  IF exs = <<>> THEN <<>> ELSE Head(exs) \o WordsOfExamples(Tail(exs))

InSeq(x, q) == \E i \in 1..Len(q) : q[i] = x

\* The body of the two loops: the Set words, in insertion order, after the
\* words ws, for the target lemma and the keys glossMap holds.
RECURSIVE CollectWords(_, _, _, _)
CollectWords(ws, target, glossMap, words) ==
  IF ws = <<>> THEN words
  ELSE LET root == ToLowerCase(Head(ws).root)
           surf == ToLowerCase(Head(ws).surface)
       IN  IF surf = "" THEN CollectWords(Tail(ws), target, glossMap, words)
           ELSE IF root # "" /\ root = target
             THEN CollectWords(Tail(ws), target, glossMap, words)
           ELSE IF surf \in glossMap
             THEN CollectWords(Tail(ws), target, glossMap, words)
           ELSE CollectWords(Tail(ws), target, glossMap,
                             IF InSeq(surf, words) THEN words
                             ELSE Append(words, surf))

\* const toFetch = Array.from(words).slice(0, 30)
ToFetch(data, glossMap) ==
  LET words == CollectWords(WordsOfExamples(data.examples),
                            ToLowerCase(data.lemma), glossMap, <<>>)
  IN  IF Len(words) > MaxGlossBatch THEN Slice(words, 0, MaxGlossBatch)
      ELSE words

\* The keys an answer of the endpoint can hold: the words of the examples,
\* one of them in another case, and a word nobody asked for.
ResponseKeys == {"ev", "su", "at", "Ev", "zz"}

\* What fetchGlosses resolves with: the object in the answer's content, any
\* keys in it; {} when the content is no JSON or no object.
GlossMappings == SUBSET ResponseKeys

\* The effect runs after a render that changed data, apiKey or glossMap:
\* run() up to its await.
GlossEffect ==
  /\ gl.pc = "effect"
  /\ IF gl.data.null \/ gl.apiKey = ""
     THEN gl' = [gl EXCEPT !.pc = "idle"]
     ELSE \E toFetch \in {ToFetch(gl.data, gl.glossMap)} :
            IF Len(toFetch) = 0
            THEN gl' = [gl EXCEPT !.pc = "idle"]
            ELSE gl' = [gl EXCEPT !.pc = "fetch", !.toFetch = toFetch,
                                  !.glossLoading = TRUE]
  /\ UNCHANGED <<svars, xvars, sc, fr>>

\* fetchGlosses resolves with mapping: setGlossMap stores a new object, which
\* is a changed dependency of the effect whatever mapping holds, and the
\* finally block clears glossLoading.
GlossResolve(mapping) ==
  /\ gl.pc = "fetch"
  /\ gl' = [gl EXCEPT !.glossMap = @ \cup mapping, !.pc = "effect",
                      !.toFetch = <<>>, !.glossLoading = FALSE]
  /\ UNCHANGED <<svars, xvars, sc, fr>>

\* fetchGlosses throws (the request fails, res.ok is false, or the body is
\* no JSON): the catch block only warns, no state the effect depends on
\* changes.
GlossReject ==
  /\ gl.pc = "fetch"
  /\ gl' = [gl EXCEPT !.pc = "idle", !.toFetch = <<>>, !.glossLoading = FALSE]
  /\ UNCHANGED <<svars, xvars, sc, fr>>

\* The page after setData and setApiKey, with the effect due: an analysis
\* result or none, a credential or none, and the glosses of an earlier
\* analysis or none.
GlossInitState ==
  /\ gl \in {[data |-> GlossData(d), apiKey |-> k, glossMap |-> m,
               pc |-> "effect", toFetch |-> <<>>, glossLoading |-> FALSE] :
               d \in GlossDataIds, k \in {"", "sk"}, m \in {{}, {"su"}}}
  /\ SessIdle
  /\ FrIdle
  /\ xPieces = <<>>
  /\ XIdle
  /\ ScIdle

GlossSettle == (\E mapping \in GlossMappings : GlossResolve(mapping)) \/ GlossReject

GlossNext == GlossEffect \/ GlossSettle

SpecGloss == GlossInitState /\ [][GlossNext]_vars

\* React runs a due effect, and a request is answered or fails.
FairGloss == SpecGloss /\ WF_vars(GlossEffect) /\ WF_vars(GlossSettle)

\* ------------------------------------------------------------ claims

\* C2 as stated - extraction completeness and ordering with arbitrary noise:
\* one pass of the extractor over a text of objects and noise, the noise being
\* any characters ({ and " included), slices out exactly the objects, in
\* order, and hands each to emitObject.
C2_AnyNoise ==
  (xAppends = 1 /\ xOff = Len(XText))
    => /\ xCands = ObjTextsOf(xPieces)
       /\ Len(xOut) = Len(ObjTextsOf(xPieces))
       /\ xOut = ParsedOf(ObjTextsOf(xPieces))

\* C2 amended - extraction completeness and ordering: when the noise holds
\* neither { nor " (it may hold }, a backslash and any other character), one
\* pass of the extractor over the text slices out exactly the objects, in
\* left-to-right order, hands each to emitObject, and emits no noise.
C2_Complete ==
  (/\ xAppends = 1
   /\ xOff = Len(XText)
   /\ \A k \in 1..Len(xPieces) : xPieces[k] \notin OpenNoise)
    => /\ xCands = ObjTextsOf(xPieces)
       /\ Len(xOut) = Len(ObjTextsOf(xPieces))
       /\ xOut = ParsedOf(ObjTextsOf(xPieces))

\* C2 witness: two objects with } noise between them, extracted in one pass.
C2_Witness ==
  /\ xPieces = <<"braces", "close", "nested">>
  /\ xAppends = 1
  /\ xCands = <<T_braces, T_nested>>
  /\ Len(xOut) = 2

\* The backslashes that immediately precede index i (0-based) of buf.
RECURSIVE BackslashRun(_, _)
BackslashRun(buf, i) ==
  IF i > 0 /\ buf[i] = BSLASH THEN 1 + BackslashRun(buf, i - 1) ELSE 0

\* C3 - string-aware brace counting: while the scanner is inside a string
\* literal no character changes depth, start or the candidates; a quote met
\* inside a string closes it exactly when an even number of backslashes
\* precedes it; and an object whose strings hold {, } or escaped quotes is
\* sliced out as one candidate, from its opening to its matching brace.
C3_StringAware ==
  /\ [][sc.inStr => /\ sc'.depth = sc.depth
                    /\ sc'.start = sc.start
                    /\ sc'.toEmit = sc.toEmit
                    /\ sc'.buf = sc.buf]_vars
  /\ [][(ScanMore(sc) /\ sc.inStr /\ sc.buf[sc.i + 1] = QUOTE)
          => (sc'.inStr <=> BackslashRun(sc.buf, sc.i) % 2 = 1)]_vars
  /\ []((~ScanMore(sc) /\ \A k \in 1..Len(xPieces) : xPieces[k] \notin OpenNoise)
          => sc.toEmit = ObjTextsOf(xPieces))

\* C3 witness: the scan of }{"a":"}\"{"}\{"a":"\\"} has ended with the two
\* objects as its two candidates.
C3_Witness ==
  /\ xPieces = <<"close", "braces", "back", "bslash">>
  /\ ~ScanMore(sc)
  /\ sc.toEmit = <<T_braces, T_bslash>>

SingleObject == Len(xPieces) = 1 /\ xPieces[1] \in ObjPieces

\* C4 as stated - split-object resilience for any object: however the text of
\* one object is split over appends, nothing is emitted before the append
\* that delivers the closing brace, and that append emits exactly the object.
C4_AnyObject ==
  SingleObject
    => /\ xOff < Len(XText) => (xCands = <<>> /\ xOut = <<>>)
       /\ xOff = Len(XText) => (xCands = <<XText>> /\ Len(xOut) = 1)

\* C4 amended - split-object resilience: however the text of one object of at
\* most MAX_BUF characters is split over appends to an empty textBuf, nothing
\* is emitted before the append that delivers the closing brace, and that
\* append emits exactly the object.
C4_SplitObject ==
  (SingleObject /\ Len(XText) <= MAX_BUF)
    => /\ xOff < Len(XText) => (xCands = <<>> /\ xOut = <<>>)
       /\ xOff = Len(XText) => (xCands = <<XText>> /\ Len(xOut) = 1)
       /\ (xOff = Len(XText) /\ ~xLast.flush) => xLast.emit = 1

\* C4 witness: {"a":"}\"{"} appended one character at a time (a split at
\* every offset, inside the string and after the backslash) and emitted once.
C4_Witness ==
  /\ xPieces = <<"braces">>
  /\ xAppends = Len(T_braces)
  /\ xOff = Len(T_braces)
  /\ xCands = <<T_braces>>
  /\ xLast.emit = 1

\* C5 - bounded memory: after every handleTextChunk and extractJsonObjects
\* call textBuf holds at most MAX_BUF characters, for every split of every
\* text and for an endless stream of noise without {.
C5_Bounded == Len(xBuf) <= MAX_BUF

\* C5 witness: a call on a noise-only stream whose buffer the cap has cut.
C5_Witness == xPieces = <<>> /\ xLast.calls = 1 /\ xLast.cut /\ Len(xBuf) = MAX_BUF

\* The steps of session s: its awaits resolving or rejecting.
StepOf(s) == nSessions' = nSessions /\ sess'[s].pc # sess[s].pc

\* The session whose controller abortRef holds, if it has not failed.
Current(s) == abortRef = s /\ sess[s].ended # "error"

\* C1: when the stream arrives as the two chunks of the example (a delta frame
\* with the head of the entry object; a delta frame with its tail followed by
\* a response.completed frame with data {}), no object has been emitted after
\* chunk 1, and after chunk 2 exactly one object, the entry, has been emitted
\* and the session is completed: loading false, error unset.
C1_Example ==
  \A s \in Sessions :
    Current(s) /\ sess[s].resp = "example" =>
      /\ sess[s].nread = 1 =>
           entries = <<>> /\ sess[s].emitted = 0 /\ loading /\ error = <<>>
      /\ sess[s].nread = 2 =>
           entries = <<EntryKopek>> /\ sess[s].emitted = 1 /\ ~loading /\ error = <<>>

C1_Witness ==
  /\ sess[1].resp = "example"
  /\ sess[1].nread = 2
  /\ sess[1].ended = "eof"
  /\ abortRef = 1
  /\ entries = <<EntryKopek>>
  /\ ~loading

\* C6: a chunk that brings a running session (loading true, no error) a frame
\* whose payload is exactly [DONE], or a response.completed frame with a JSON
\* payload, and no response.error frame, leaves the session completed:
\* loading false and no error set.
C6_Terminal ==
  [][\A s \in Sessions :
       LET new == sess'[s].sig \ sess[s].sig IN
       /\ loading
       /\ error = <<>>
       /\ new \cap {"DONE", "completed"} # {}
       /\ "error" \notin new
       => ~loading' /\ error' = <<>>]_vars

C6_Witness ==
  /\ sess[1].sig = {"DONE"}
  /\ sess[2].sig = {"completed"}
  /\ ~loading
  /\ error = <<>>

\* C7: when reader.read() has reported done with no error, and the session
\* met no [DONE] frame, no response.completed event and no done object,
\* loading is false.
C7_NaturalEnd ==
  \A s \in Sessions :
    Current(s) /\ sess[s].ended = "eof" /\ sess[s].sig = {} => ~loading

\* C8: once the controller of a session is aborted, the session appends no
\* further entry and issues no further read, and its request is not left
\* open; the abort of a controller and the rejection it causes change none of
\* entries, error and loading.
C8_Cancellation ==
  /\ [][\A s \in Sessions :
          sess[s].aborted =>
            /\ sess'[s].emitted = sess[s].emitted
            /\ sess'[s].reads = sess[s].reads
            /\ sess'[s].nread = sess[s].nread
            /\ StepOf(s) => UNCHANGED <<entries, error, loading>>]_vars
  /\ [][(nSessions' = nSessions /\ \E s \in Sessions : sess'[s].aborted # sess[s].aborted)
          => UNCHANGED <<entries, error, loading>>]_vars
  /\ [](\A s \in Sessions : sess[s].aborted => sess[s].transport # "open")

C8_Witness ==
  /\ sess[1].resp = "doneobj"
  /\ sess[1].nread = 1
  /\ sess[1].abortAt = "read"
  /\ sess[1].ended = "abort"
  /\ sess[1].transport = "aborted"
  /\ sess[2].resp = "example"
  /\ sess[2].nread = 1
  /\ sess[2].abortAt = "read"
  /\ sess[2].ended = "abort"
  /\ sess[2].transport = "aborted"

\* C9: neither the abort of a controller, by Cancel or by a later runStream,
\* nor the rejection it causes at the pending await (the fetch, the read of
\* the error body, a stream read) sets error: error is the same after the step
\* as before it, apart from the setError(null) of the later runStream itself.
C9_NotAnError ==
  /\ [][\A s \in Sessions :
          sess[s].aborted /\ StepOf(s) => error' = error]_vars
  /\ [][(nSessions' = nSessions /\ \E s \in Sessions : sess'[s].aborted # sess[s].aborted)
          => error' = error]_vars
  /\ [](\A s \in Sessions :
          Current(s) /\ sess[s].aborted /\ sess[s].abortAt \in {"fetch", "text", "read"}
            => error = <<>>)

C9_Witness ==
  /\ sess[1].abortAt = "read"
  /\ sess[1].ended = "abort"
  /\ sess[2].resp = "http"
  /\ sess[2].abortAt = "text"
  /\ sess[2].ended = "abort"
  /\ error = <<>>

\* C10: at most one session is awaiting its request with the request open,
\* and a session whose controller abortRef no longer holds appends nothing to
\* entries, also when it had cleared loading before the later runStream.
C10_OneActive ==
  /\ [](Cardinality({s \in Sessions :
                       /\ sess[s].pc \in {"fetch", "text", "read"}
                       /\ sess[s].transport = "open"}) <= 1)
  /\ [][\A s \in Sessions :
          sess[s].pc # "idle" /\ abortRef' # s =>
            /\ sess'[s].emitted = sess[s].emitted
            /\ StepOf(s) => entries' = entries]_vars

C10_Witness ==
  /\ sess[1].resp = "doneobj"
  /\ sess[1].sig = {"doneobj"}
  /\ sess[1].nread = 1
  /\ sess[1].ended = "abort"
  /\ sess[2].resp = "plain"
  /\ sess[2].emitted = 1
  /\ entries = <<EntryPlain>>

\* A runStream call with no credential or with a query that is blank.
BadCall(c) == c # <<>> /\ (c[1] = <<>> \/ \A k \in 1..Len(c[2]) : c[2][k] = SPACE)

\* C11: a runStream call with no credential, or with a query that is empty
\* after trimming, issues no request, aborts no controller and leaves entries,
\* error and loading as they are; every request carries a credential and a
\* non-empty text.
C11_Validation ==
  /\ [][lastCall' # lastCall /\ BadCall(lastCall')
          => UNCHANGED <<entries, error, loading, abortRef, nSessions, sess>>]_vars
  /\ [](\A s \in Sessions :
          sess[s].pc # "idle" => sess[s].key # <<>> /\ sess[s].input # <<>>)

C11_Witness ==
  /\ BadCall(lastCall)
  /\ sess[1].resp = "doneobj"
  /\ sess[1].ended = "eof"
  /\ ~sess[1].aborted
  /\ sess[1].emitted = 1
  /\ nSessions = 1

\* C12: a session that met a fatal condition (fetch rejected, non-success
\* status or no body, response.error event) has a non-empty error message
\* and loading false.
C12_NonEmptyMessage ==
  \A s \in Sessions :
    abortRef = s /\ (sess[s].ended = "error" \/ "error" \in sess[s].sig) =>
      /\ error # <<>>
      /\ error[1] # <<>>
      /\ ~loading

\* C13: within one session setError is called with a message at most once.
C13_Once == \A s \in Sessions : sess[s].errSets <= 1

\* C14: every value handed to emitObject whose type is not "done" is appended
\* to entries, whatever its type: a session has appended as many entries as
\* it has parsed such objects.
C14_PassThrough == \A s \in Sessions : sess[s].emitted = sess[s].handed

\* C15: however the bytes of N blank-line-terminated frames are split into
\* chunks, the frames the read loop has gone through are a prefix of those it
\* goes through when the whole text arrives in one chunk, and once all bytes
\* are fed they are the same N frames, with the fields each frame holds, in
\* the same order.
C15_FrameOrder ==
  LET whole == ProcessChunk(EmptyWorld, FrText(fr.ids)).log IN
  /\ Len(fr.w.log) <= Len(whole)
  /\ fr.w.log = SubSeq(whole, 1, Len(fr.w.log))
  /\ fr.off = Len(FrText(fr.ids)) =>
       /\ fr.w.log = whole
       /\ fr.w.log = [k \in 1..Len(fr.ids) |-> FrFields(fr.ids[k])]

C15_Witness ==
  /\ Len(fr.ids) = 2
  /\ fr.ids[1][2] = "rnrn"
  /\ fr.split
  /\ fr.off = Len(FrText(fr.ids))
  /\ Len(fr.w.log) = 2

\* The candidates cs lie in the text one after the other, without overlap,
\* each ending in a closing brace at or before offset upTo, the first starting
\* after offset from.
RECURSIVE LieInOrder(_, _, _)
LieInOrder(cs, from, upTo) ==
  IF cs = <<>> THEN TRUE
  ELSE \E e \in (from + Len(Head(cs)))..upTo :
         /\ SubSeq(XText, e - Len(Head(cs)) + 1, e) = Head(cs)
         /\ XText[e] = "}"
         /\ LieInOrder(Tail(cs), e, upTo)

IsEntry(v) == GetKey(v, K_type) = V_entry

\* C16: however the text deltas are split, entries is only ever extended at
\* its end, it holds the entry objects among the values handed to emitObject
\* in the order they were handed over, and these are the parsed candidates,
\* which lie in the text appended so far one after the other without overlap:
\* in the order of their closing braces, none twice.
C16_EmissionOrder ==
  /\ [][Len(entries') >= Len(entries)
          /\ SubSeq(entries', 1, Len(entries)) = entries]_vars
  /\ [](xPieces # <<>> =>
          /\ entries = SelectSeq(xOut, IsEntry)
          /\ xOut = ParsedOf(xCands)
          /\ LieInOrder(xCands, 0, xOff))

C16_Witness ==
  /\ xPieces = <<"entry_a", "entry", "nl", "entry_a">>
  /\ xOff = Len(XText)
  /\ xAppends = 3
  /\ xLast.emit = 2
  /\ Len(entries) = 3
  /\ entries[1] # entries[2]
  /\ entries[3] = entries[1]

\* The user has cancelled session s while its fetch or a read was pending.
Cancelled(s) ==
  abortRef = s /\ sess[s].aborted /\ sess[s].abortAt \in {"fetch", "read"}

\* C17: after the user cancels a running stream, loading eventually becomes
\* false.
C17_CancelEnds == \A s \in Sessions : Cancelled(s) ~> ~loading

\* C18: once a session has processed a [DONE] frame, a response.completed
\* event or a done object, it issues no further read, goes through no further
\* frame, appends no entry and sets no error.
C18_CompletedIsTerminal ==
  [][\A s \in Sessions :
       sess[s].sig \cap {"DONE", "completed", "doneobj"} # {} =>
         /\ sess'[s].reads = sess[s].reads
         /\ sess'[s].frames = sess[s].frames
         /\ sess'[s].emitted = sess[s].emitted
         /\ sess'[s].errSets = sess[s].errSets]_vars

\* C19: once a session has processed a response.error event it is errored
\* (error set, loading false), it issues no further read, goes through no
\* further frame, appends no entry and leaves loading as it is.
C19_ErrorEnds ==
  /\ [](\A s \in Sessions :
          abortRef = s /\ "error" \in sess[s].sig => error # <<>> /\ ~loading)
  /\ [][\A s \in Sessions :
          "error" \in sess[s].sig =>
            /\ sess'[s].reads = sess[s].reads
            /\ sess'[s].frames = sess[s].frames
            /\ sess'[s].emitted = sess[s].emitted
            /\ StepOf(s) => loading' = loading]_vars

\* C20: a pass of the read loop in which a session meets a
\* response.output_text.done or a response.completed event (and no
\* response.error event) leaves loading false.
C20_BothComplete ==
  [][\A s \in Sessions :
       LET new == sess'[s].sig \ sess[s].sig IN
       new \cap {"textdone", "completed"} # {} /\ "error" \notin new
         => ~loading']_vars

\* The frames the read loop ignores: an empty payload, a payload that is no
\* JSON (and not the [DONE] sentinel), an event name the switch does not list.
StIgnored(id) == id \in {"empty", "nojson", "unknown", "noevent"}

\* The texts of the frames of ids that are not ignored, in order.
EffectiveBodies(ids) ==
  LET eff == SelectSeq(ids, LAMBDA id : ~StIgnored(id)) IN
  [k \in 1..Len(eff) |-> StBodies[eff[k]]]

\* C21: a pass of the read loop over frames of which some are ignored frames
\* (empty payload, payload that is no JSON, event name not listed) leaves
\* entries, error, loading and textBuf as the pass over the other frames alone
\* leaves them (unchanged when every frame is ignored), and goes through every
\* frame of the chunk, those after an ignored frame included.
C21_Ignored ==
  [][fr'.off > fr.off =>
       \E fed \in {SubSeq(fr.ids, fr.off + 1, fr'.off)} :
       \E exp \in {ProcessFrames(fr.w, EffectiveBodies(fed))} :
         /\ fr'.w.entries = exp.entries
         /\ fr'.w.error = exp.error
         /\ fr'.w.loading = exp.loading
         /\ fr'.w.textBuf = exp.textBuf
         /\ Len(fr'.w.log) = Len(fr.w.log) + Len(fed)
         /\ (\A k \in 1..Len(fed) : StIgnored(fed[k])) =>
              /\ fr'.w.entries = fr.w.entries
              /\ fr'.w.error = fr.w.error
              /\ fr'.w.loading = fr.w.loading
              /\ fr'.w.textBuf = fr.w.textBuf]_vars

\* C21 witness: one chunk held a response.created frame with a delta payload
\* and, after it, a text delta: the first left no trace, the second was
\* processed.
C21_Witness ==
  /\ fr.ids = <<"unknown", "head">>
  /\ fr.last = 2
  /\ Len(fr.w.log) = 2
  /\ fr.w.textBuf = T_h
  /\ fr.w.entries = <<>>
  /\ fr.w.error = <<>>
  /\ fr.w.loading

\* The string a frame carries in one of the two supported shapes, <<>> for a
\* frame that carries none.
StAppends(id) ==
  CASE id \in {"head", "cpart"} -> T_h
    [] id = "tail" -> T_t
    [] id = "whole" -> T_entry_s
    [] OTHER -> <<>>

\* handleTextChunk applied to the strings of the frames ids, in order.
RECURSIVE AppendAll(_, _)
AppendAll(w0, ids0) ==
  Let(<<w0, ids0>>, LAMBDA a :
    IF a[2] = <<>> THEN a[1]
    ELSE AppendAll(ApplyExtract(a[1], HandleTextChunk(a[1].textBuf, StAppends(Head(a[2])))),
                   Tail(a[2])))

\* C22: a pass of the read loop appends to textBuf exactly the strings its
\* frames carry in the two supported shapes ({delta: string} under
\* response.output_text.delta, {delta: {type: "output_text.delta", text:
\* string}} under response.content_part.delta), untransformed and in order; a
\* delta of any other shape appends nothing.
C22_DeltasOnly ==
  [][fr'.off > fr.off =>
       \E exp \in {AppendAll(fr.w, SubSeq(fr.ids, fr.off + 1, fr'.off))} :
         /\ fr'.w.textBuf = exp.textBuf
         /\ fr'.w.entries = exp.entries]_vars

\* The texts of the pieces of ps that close at depth zero, in order.
RECURSIVE CandTextsOf(_)
CandTextsOf(ps) ==
  IF ps = <<>> THEN <<>>
  ELSE (IF Head(ps) \in ObjPieces \cup MalformedPieces
        THEN <<PieceText(Head(ps))>> ELSE <<>>)
       \o CandTextsOf(Tail(ps))

\* The offset in TextOf(ps) at which its k-th such piece ends (0 for k = 0).
RECURSIVE CandEnd(_, _)
CandEnd(ps, k) ==
  IF k = 0 \/ ps = <<>> THEN 0
  ELSE Len(PieceText(Head(ps)))
       + (IF Head(ps) \in ObjPieces \cup MalformedPieces
          THEN (IF k = 1 THEN 0 ELSE CandEnd(Tail(ps), k - 1))
          ELSE CandEnd(Tail(ps), k))

\* C23: however a text with malformed candidates ({x}) is split over appends,
\* each candidate is sliced out once (the candidates lie in the text one after
\* the other), textBuf holds only the text after the last candidate sliced
\* out, the malformed ones are handed to nobody and set no error, and the
\* well-formed objects before and after them are emitted.
C23_DroppedOnce ==
  (\E k \in 1..Len(xPieces) : xPieces[k] \in MalformedPieces) =>
    /\ LieInOrder(xCands, 0, xOff)
    /\ xCands = SubSeq(CandTextsOf(xPieces), 1, Len(xCands))
    /\ xBuf = SubSeq(XText, CandEnd(xPieces, Len(xCands)) + 1, xOff)
    /\ xOut = ParsedOf(xCands)
    /\ entries = xOut
    /\ error = <<>>
    /\ xOff = Len(XText) =>
         /\ xCands = CandTextsOf(xPieces)
         /\ xOut = ParsedOf(ObjTextsOf(xPieces))

\* C23 witness: {x}{"type":"entry"} LF {x} appended in three or more pieces;
\* both malformed candidates were sliced out, only the entry was emitted.
C23_Witness ==
  /\ xPieces = <<"bad", "entry", "nl", "bad">>
  /\ xOff = Len(XText)
  /\ xAppends >= 3
  /\ xLast.flush
  /\ xCands = <<PieceText("bad"), T_entry, PieceText("bad")>>
  /\ xOut = <<EntryPlain>>
  /\ entries = <<EntryPlain>>
  /\ xBuf = <<>>

\* C24: however the text is split over appends, and also when the cap has
\* dropped old text, every value handed to emitObject is the value of one of
\* the top-level objects of the text: an object nested in one of them is
\* never handed over on its own.
C24_NestedNeverAlone ==
  xOut # <<>> =>
    \E top \in {ParsedOf(ObjTextsOf(xPieces))} :
      \A k \in 1..Len(xOut) : \E j \in 1..Len(top) : xOut[k] = top[j]

\* The read loop of a session that is alone in the world, after the first n
\* chunks of response id.
RECURSIVE AloneAfter(_, _)
AloneAfter(id, n) ==
  IF n = 0 THEN EmptyWorld
  ELSE ProcessChunk(AloneAfter(id, n - 1), ResponseOf(id).chunks[n])

AloneTable ==
  [id \in ResponseIds |->
     [n \in 0..Len(ResponseOf(id).chunks) |-> AloneAfter(id, n)]]

\* C25: a runStream call that passes its guards leaves entries empty, error
\* null and loading true, and its session starts with empty decoder state,
\* sseBuf and textBuf; from then on the session's buffers, the frames it went
\* through and the entries it appended are those of a session that is alone
\* with the same response, whatever the sessions before it left buffered.
C25_ResetAndIsolate ==
  /\ [][nSessions' = nSessions + 1 =>
          /\ entries' = <<>>
          /\ error' = <<>>
          /\ loading'
          /\ sess'[nSessions'].decPending = <<>>
          /\ sess'[nSessions'].sseBuf = <<>>
          /\ sess'[nSessions'].textBuf = <<>>]_vars
  /\ [](\A s \in Sessions :
          sess[s].pc # "idle" =>
            \E a \in {AloneTable[sess[s].resp][sess[s].nread]} :
              /\ sess[s].decPending = a.decPending
              /\ sess[s].sseBuf = a.sseBuf
              /\ sess[s].textBuf = a.textBuf
              /\ sess[s].frames = Len(a.log)
              /\ sess[s].emitted = Len(a.entries)
              /\ abortRef = s => entries = a.entries)

\* C25 witness: the first session failed with the head of an entry in its
\* textBuf; the second received the tail of that entry and data: [DO, and
\* emitted nothing.
C25_Witness ==
  /\ sess[1].resp = "example"
  /\ sess[1].nread = 1
  /\ sess[1].ended = "error"
  /\ sess[1].textBuf = T_kopek_head
  /\ sess[2].resp = "rest"
  /\ sess[2].nread = 1
  /\ sess[2].textBuf = T_kopek_tail
  /\ sess[2].sseBuf = P_data \o <<SPACE, "[", "D", "O">>
  /\ sess[2].emitted = 0
  /\ entries = <<>>
  /\ error = <<>>
  /\ loading

\* C26: after every pass of the read loop, however the stream is cut into
\* chunks, sseBuf holds no blank line and is the text received after the last
\* blank line; the frames gone through are those whose blank line has been
\* received in full; and after end-of-transport the text left in sseBuf has
\* not been dispatched.
C26_SseBuffer ==
  \E ends \in {StEndsOf[fr.ids]} :
  \E nDone \in {Cardinality({k \in 1..Len(ends) : ends[k] <= fr.off})} :
  \E lastEnd \in {IF nDone = 0 THEN 0 ELSE ends[nDone]} :
    /\ \A i \in 1..Len(fr.w.sseBuf) : BlankLineAt(fr.w.sseBuf, i) = 0
    /\ Len(fr.w.log) = nDone
    /\ fr.w.sseBuf = Decode(<<>>, SubSeq(StTexts[fr.ids], lastEnd + 1, fr.off)).text
    /\ fr.eof => /\ Len(fr.w.log) = Len(ends)
                 /\ fr.w.sseBuf = Decode(<<>>, SubSeq(StTexts[fr.ids], lastEnd + 1,
                                                      Len(StTexts[fr.ids]))).text

\* C26 witness: the stream ended with data: [DONE] and no blank line after
\* it: the two frames before it were gone through, the text stayed in sseBuf
\* and loading is still true.
C26_Witness ==
  /\ fr.ids = <<"noevent", "blank", "partial">>
  /\ fr.eof
  /\ Len(fr.w.log) = 2
  /\ fr.w.sseBuf = P_data \o <<SPACE>> \o S_DONE
  /\ fr.w.loading

\* C27: a call of extractJsonObjects that follows another call with no
\* append in between (the flush of response.output_text.done and
\* response.completed after a delta) hands nothing to emitObject and leaves
\* textBuf as it is.
C27_FlushIdempotent ==
  [][(xLast.calls = 1 /\ ~xLast.flush /\ xLast'.flush)
       => xLast'.emit = 0 /\ xBuf' = xBuf]_vars

\* C28: however the bytes of a response are cut into chunks, after the
\* bytes received so far entries, error and loading are what one pass over
\* those bytes in a single chunk gives; the session given the whole stream
\* (an entry with a two-byte character, then [DONE]) ends with that entry,
\* no error and loading false.
C28_ChunkingInvariant ==
  \E one \in {ProcessChunk(EmptyWorld, SubSeq(StTexts[fr.ids], 1, fr.off))} :
    /\ fr.w.entries = one.entries
    /\ fr.w.error = one.error
    /\ fr.w.loading = one.loading
    /\ fr.w.textBuf = one.textBuf
    /\ (fr.eof /\ fr.ids = <<"whole", "done">>) =>
         /\ fr.w.entries = <<EntryS>>
         /\ fr.w.error = <<>>
         /\ ~fr.w.loading

\* C28 witness: the stream with the entry has ended after a chunk boundary
\* fell between the two bytes of its o-umlaut.
C28_Witness ==
  /\ fr.ids = <<"whole", "done">>
  /\ fr.split
  /\ fr.eof
  /\ fr.w.entries = <<EntryS>>
  /\ ~fr.w.loading

\* C29: gloss fetching quiesces.  For a fixed analysis result and
\* credential the effect issues fetchGlosses finitely many times, whatever
\* keys each answer holds: from some point on no call is awaited and no run
\* of the effect is due.
C29_Quiesces == <>[](gl.pc = "idle")

\* The closing braces of a text.
RECURSIVE CountClose(_)
CountClose(t) ==
  IF t = <<>> THEN 0
  ELSE (IF Head(t) = "}" THEN 1 ELSE 0) + CountClose(Tail(t))

\* What is left of the scan: a reset shortens textBuf, any other iteration
\* moves the index forward.
ScanMeasure(st) == 2 * Len(st.buf) - st.i

\* C30: the scanner loop of extractJsonObjects ends on every text.  The
\* index goes back to 0 only when textBuf has become strictly shorter, depth
\* is never negative (a closing brace met at depth zero is passed without a
\* candidate), one pass collects no more candidates than the text has
\* closing braces, and every iteration lowers what is left of the scan.
C30_Terminates ==
  /\ [](sc.depth >= 0 /\ Len(sc.toEmit) <= CountClose(XText))
  /\ [][/\ sc'.i = 0 => Len(sc'.buf) < Len(sc.buf)
        /\ ScanMeasure(sc') < ScanMeasure(sc)
        /\ (~sc.inStr /\ sc.buf[sc.i + 1] = "}" /\ sc.depth = 0)
             => sc' = [sc EXCEPT !.i = @ + 1]]_vars
  /\ <>(~ScanMore(sc))

\* A pass that has ended with one candidate and a closing brace passed at
\* depth zero after it.
C30_Witness ==
  /\ xPieces = <<"word", "nested", "close">>
  /\ ~ScanMore(sc)
  /\ Len(sc.toEmit) = 1
  /\ sc.buf = <<"}">>
  /\ sc.depth = 0

====
